---- MODULE Spec2Model ----
(***************************************************************************)
(* A model of the pixiv-dl download pipeline (src/pixiv_dl/downloader.py): *)
(* the Retry Gate (Downloader.retry_wrapper), the page download loop       *)
(* (Downloader.download_page) run by a ThreadPoolExecutor, the metadata    *)
(* snapshot written by store_illust_metadata and the bookmark job that     *)
(* composes them (Downloader.download_bookmarks).                          *)
(***************************************************************************)
EXTENDS Integers, Sequences, FiniteSets, TLC

VARIABLES
    gate,       \* the running retry_wrapper call: loop counter, outcome, event log
    clock,      \* wall clock read by pendulum.now("UTC")
    run,        \* number of the job invocation (1 = first run of the program)
    stage,      \* index into RESTRICTS of the bookmark collection being processed
    jobpc,      \* position of the control thread inside download_bookmarks
    to_dl,      \* the download units of the current stage (item ids, in order)
    upc,        \* per unit: position of its future / worker inside download_page
    upage,      \* per unit: index of the page the for loop is at
    ureqs,      \* per unit: page numbers handed to aapi.download in this pass
    ugot,       \* per unit: page numbers whose fetch returned success in this pass
    uerr,       \* per unit: the exception stored in the unit's future
    resIdx,     \* how many results list(e.map(...)) has consumed
    meta,       \* per item: raw/<id>/meta.json (NoFile or its content)
    files,      \* per item: the page files present in raw/<id>/
    marker,     \* per item: raw/<id>/marker.json (NoFile or its timestamp)
    markerPass, \* per item: the pages fetched by the pass that wrote the marker
    snap,       \* the mirror as it was when the previous run ended
    prevOk,     \* whether the previous run ended with every unit complete
    runReqs,    \* per item: number of page fetches started in the current run
    umark0,     \* per unit: marker.json of its item when download_page was entered
    pag,        \* the running depaginate_download call and what its caller did with it
    flt,        \* the filter policy, the blacklist table and the last filter_illust call
    mat,        \* the last make_downloadable call: its argument and the list it returned
    db,         \* the relational store: committed tables, the open transaction and the batch being recorded
    fan,        \* the worker pool of one fan-out and its work items
    dup,        \* two download units of one item running at the same time, and the item's mirror entry
    sym,        \* the raw and view directories and the last do_symlinks call
    views,      \* per bookmark collection: the view directory bookmarks/<restrict> and the links in it
    van,        \* one job whose items the gallery may delete between recording and download
    job,        \* a bookmark job at the level of whole items: listing, store, snapshots, units, bookmark rows
    fol,        \* download_following: the limit, the feed, the loop offset and the items handed over
    blk,        \* the blacklist subcommand: the Blacklist table, the last call and what it reported
    off         \* the offline filter tool: the user arguments, the rules built from them and the last check

poolvars == <<clock, run, stage, jobpc, to_dl, upc, upage, ureqs, ugot, uerr,
              resIdx, meta, files, marker, markerPass, snap, prevOk, runReqs, umark0>>
vars == <<gate, clock, run, stage, jobpc, to_dl, upc, upage, ureqs, ugot, uerr,
          resIdx, meta, files, marker, markerPass, snap, prevOk, runReqs, umark0,
          pag, flt, mat, db, fan, dup, sym, views, van, job, fol, blk, off>>

\* a path at which no file exists
NoFile == [exists |-> FALSE]

(***************************************************************************)
(* Text.  An exception or error message is a sequence of words; str.lower  *)
(* maps every word to its lower-case form and `needle in text` is the      *)
(* search for a contiguous run of words.                                   *)
(***************************************************************************)
lower(w) ==
    CASE w = "Connection" -> "connection"
      [] w = "RemoteDisconnected" -> "remotedisconnected"
      [] w = "ConnectionResetError" -> "connectionreseterror"
      [] w = "Read" -> "read"
      [] w = "Cat" -> "cat"
      [] w = "CAT" -> "cat"
      [] w = "DOG" -> "dog"
      [] OTHER -> w

str_lower(s) == [i \in 1..Len(s) |-> lower(s[i])]

contains(needle, s) ==
    \E i \in 1..(Len(s) - Len(needle) + 1) :
        SubSeq(s, i, i + Len(needle) - 1) = needle

\* messages of the PixivError raised by requests_call
AbortedMsg == <<"Connection", "aborted", "RemoteDisconnected">>
ResetMsg   == <<"Connection", "aborted", "ConnectionResetError">>
TimeoutMsg == <<"Read", "timed", "out">>
\* messages of a structured error response
GrantMsg   == <<"Error", "Message", "invalid_grant">>
RateMsg    == <<"Rate", "Limit">>

(***************************************************************************)
(* Outcomes of one invocation of the wrapped callable.                     *)
(***************************************************************************)
Raise(cls, msg) == [kind |-> "raise", cls |-> cls, msg |-> msg]
RetTrue         == [kind |-> "true",  cls |-> "bool", msg |-> <<>>]
RetFalse        == [kind |-> "false", cls |-> "bool", msg |-> <<>>]
RetDict         == [kind |-> "dict",  cls |-> "dict", msg |-> <<>>]
RetErr(msg)     == [kind |-> "error", cls |-> "dict", msg |-> msg]

TransientFaults == {Raise("PixivError", AbortedMsg), Raise("PixivError", ResetMsg),
                    Raise("PixivError", TimeoutMsg)}

Outcomes == TransientFaults \cup
            {Raise("OSError", <<"Error">>), RetTrue, RetFalse, RetDict,
             RetErr(GrantMsg), RetErr(RateMsg)}

\* aapi.download(..., replace=True) returns True or raises
DownloadOutcomes == TransientFaults \cup {RetTrue}

AuthOutcomes == {"ok", "fail"}
Callables == {"download", "listing"}

(***************************************************************************)
(* Retry Gate: Downloader.retry_wrapper.                                   *)
(***************************************************************************)
Attempts == 3

NoErr == [type |-> "none", msg |-> <<>>]
Err(type, msg) == [type |-> type, msg |-> msg]

\* the state of a call of retry_wrapper(cbl) before the first iteration
gate_enter(cbl) ==
    [cbl |-> cbl, x |-> 0, pc |-> "loop", calls |-> 0, auths |-> 0,
     err |-> NoErr, log |-> <<>>]

\* "connection aborted" in str(e).lower()
is_aborted_mut(msg) == contains(<<"connection", "aborted">>, msg)
is_aborted(msg) == contains(<<"connection", "aborted">>, str_lower(msg))

\* "invalid_grant" not in res["error"]["message"]
is_grant(msg) == contains(<<"invalid_grant">>, msg)

Call(o) == [ev |-> "call", out |-> o]
Auth(a) == [ev |-> "auth", out |-> a]

\* the value range(0, 3) yields after x, or the end of the loop
next_x_mut(g) == g.x
next_x(g) == g.x + 1

\* the branch for a structured error response (lines 155-161)
on_error_mut(g, o, a) ==
    IF a = "ok"
    THEN [g EXCEPT !.x = next_x(g), !.auths = @ + 1, !.log = Append(@, Auth(a))]
    ELSE [g EXCEPT !.pc = "raised", !.auths = @ + 1, !.log = Append(@, Auth(a)),
                   !.err = Err("PixivError", <<"auth">>)]

on_error_authswallow(g, o, a) ==
    IF ~is_grant(o.msg)
    THEN [g EXCEPT !.pc = "raised", !.err = Err("Exception", <<"Unknown", "error">>)]
    ELSE [g EXCEPT !.x = next_x(g), !.auths = @ + 1, !.log = Append(@, Auth(a))]

on_error(g, o, a) ==
    IF ~is_grant(o.msg)
    THEN [g EXCEPT !.pc = "raised", !.err = Err("Exception", <<"Unknown", "error">>)]
    ELSE IF a = "ok"
    THEN [g EXCEPT !.x = next_x(g), !.auths = @ + 1, !.log = Append(@, Auth(a))]
    ELSE [g EXCEPT !.pc = "raised", !.auths = @ + 1, !.log = Append(@, Auth(a)),
                   !.err = Err("PixivError", <<"auth">>)]

\* one iteration of the for loop: cbl() had outcome o; a is what aapi.auth()
\* does if this iteration calls it
retry_iter(g, o, a) ==
    LET c == [g EXCEPT !.calls = @ + 1, !.log = Append(@, Call(o))]
    IN  CASE o.kind = "raise" ->
                 IF o.cls = "PixivError" /\ is_aborted(o.msg)
                 THEN [c EXCEPT !.x = next_x(c)]
                 ELSE [c EXCEPT !.pc = "raised", !.err = Err(o.cls, o.msg)]
          [] o.kind = "false" ->
                 [c EXCEPT !.pc = "raised",
                           !.err = Err("Exception", <<"Error", "downloading">>)]
          [] o.kind = "true"  -> [c EXCEPT !.pc = "returned"]
          [] o.kind = "error" -> on_error(c, o, a)
          [] OTHER            -> [c EXCEPT !.pc = "returned"]

\* the else clause of the for loop: the range is used up
retry_else(g) ==
    [g EXCEPT !.pc = "raised",
              !.err = Err("Exception", <<"Failed", "to", "run", g.cbl, "3", "times">>)]

\* the whole call, for the callable outcomes outs[1], outs[2], ... in order
RECURSIVE retry_run(_, _, _)
retry_run(g, outs, a) ==
    IF g.pc # "loop" THEN g
    ELSE IF g.x >= Attempts THEN retry_else(g)
    ELSE retry_run(retry_iter(g, outs[g.calls + 1], a), outs, a)

retry_wrapper(cbl, outs, a) == retry_run(gate_enter(cbl), outs, a)

GateIdle == [cbl |-> "none", x |-> 0, pc |-> "idle", calls |-> 0, auths |-> 0,
             err |-> NoErr, log |-> <<>>]

GateEnter ==
    /\ gate.pc \in {"idle", "returned", "raised"}
    /\ \E cbl \in Callables : gate' = gate_enter(cbl)
    /\ UNCHANGED <<off, blk, fol, job, van, views, sym, dup, fan, db, mat, poolvars, pag, flt>>

GateIterate ==
    /\ gate.pc = "loop"
    /\ gate.x < Attempts
    /\ \E o \in Outcomes, a \in AuthOutcomes : gate' = retry_iter(gate, o, a)
    /\ UNCHANGED <<off, blk, fol, job, van, views, sym, dup, fan, db, mat, poolvars, pag, flt>>

GateExhaust ==
    /\ gate.pc = "loop"
    /\ gate.x >= Attempts
    /\ gate' = retry_else(gate)
    /\ UNCHANGED <<off, blk, fol, job, van, views, sym, dup, fan, db, mat, poolvars, pag, flt>>

GateNext == GateEnter \/ GateIterate \/ GateExhaust

(***************************************************************************)
(* The remote catalogue.  It does not change between runs.  Illustration i *)
(* has i pages, so there is a single-page work and multi-page works; the   *)
(* private collection lists the upper half of the ids, newest first, and   *)
(* the public collection lists the lower half.                             *)
(***************************************************************************)
NumItems == 3
MaxRuns == 2

Items == 1..NumItems
RESTRICTS == <<"private", "public">>
NoUrl == <<>>

Illust(i) ==
    [id |-> i, page_count |-> i,
     meta_single_page |-> IF i = 1 THEN <<i, 1>> ELSE NoUrl,
     meta_pages |-> IF i = 1 THEN <<>> ELSE [p \in 1..i |-> <<i, p>>]]

\* what depaginate_download returns for aapi.user_bookmarks_illust(restrict=...)
user_bookmarks_illust(restrict) ==
    IF restrict = "private"
    THEN [k \in 1..(NumItems - NumItems \div 2) |-> Illust(NumItems + 1 - k)]
    ELSE [k \in 1..(NumItems \div 2) |-> Illust(NumItems \div 2 + 1 - k)]

\* Downloader.make_downloadable
make_downloadable_zero_based(illust) ==
    IF illust.page_count = 1
    THEN <<[id |-> illust.id, multi_page |-> FALSE, page_num |-> 1,
            url |-> illust.meta_single_page]>>
    ELSE [idx \in 1..Len(illust.meta_pages) |->
            [id |-> illust.id, multi_page |-> TRUE, page_num |-> idx - 1,
             url |-> illust.meta_pages[idx]]]

make_downloadable(illust) ==
    IF illust.page_count = 1
    THEN <<[id |-> illust.id, multi_page |-> FALSE, page_num |-> 1,
            url |-> illust.meta_single_page]>>
    ELSE [idx \in 1..Len(illust.meta_pages) |->
            [id |-> illust.id, multi_page |-> TRUE, page_num |-> idx,
             url |-> illust.meta_pages[idx]]]

\* the file store_illust_metadata writes: the payload and its _meta stamp
meta_json(illust, now) ==
    [exists |-> TRUE, illust |-> illust, download_date |-> now, tool |-> "pixiv-dl",
     weblink |-> illust.id]

\* the content of marker.json: json.dumps({"downloaded": now})
marker_json(now) == [exists |-> TRUE, downloaded |-> now]

\* Downloader.process_and_save_illusts on a batch in which every item is accepted
process_and_save_illusts(illusts) ==
    [k \in 1..Len(illusts) |-> make_downloadable(illusts[k])]

(***************************************************************************)
(* Download Worker Pool: ThreadPoolExecutor(4).map(download_page, to_dl)   *)
(***************************************************************************)
PoolSize == 4

Units == 1..Len(to_dl)
item_of(u) == to_dl[u][1].id
Running == {"check", "fetch", "mark"}
Finished == {"done", "skipped", "failed", "cancelled"}
NumRunning == Cardinality({u \in Units : upc[u] \in Running})

\* marker.exists()
marker_exists_mut(i) == FALSE
marker_exists(i) == marker[i].exists

\* the page the for loop over items starts with
start_page_mut(u) ==
    IF \E p \in 1..Len(to_dl[u]) : p \notin files[item_of(u)]
    THEN CHOOSE p \in 1..Len(to_dl[u]) :
            /\ p \notin files[item_of(u)]
            /\ \A q \in 1..(p - 1) : q \in files[item_of(u)]
    ELSE 1
start_page(u) == 1

\* where download_page goes after the Retry Gate ended for the page at upage[u]:
\* an exception leaves the function, a success moves the loop on, and the
\* marker is written after the last page
after_page_marks(u, ok) ==
    IF ~ok THEN "failed" ELSE "mark"
after_page_swallows(u, ok) ==
    IF upage[u] = Len(to_dl[u]) THEN "mark" ELSE "check"
after_page_forgets(u, ok) ==
    IF ~ok THEN "failed"
    ELSE IF upage[u] = Len(to_dl[u]) THEN "done" ELSE "check"
after_page(u, ok) ==
    IF ~ok THEN "failed"
    ELSE IF upage[u] = Len(to_dl[u]) THEN "mark" ELSE "check"

\* a worker thread takes the oldest pending work item and calls download_page
WorkerTake(u) ==
    /\ jobpc = "pool"
    /\ upc[u] = "pending"
    /\ \A v \in Units : v < u => upc[v] # "pending"
    /\ NumRunning < PoolSize
    /\ upc' = [upc EXCEPT ![u] = "check"]
    /\ upage' = [upage EXCEPT ![u] = start_page(u)]
    /\ umark0' = [umark0 EXCEPT ![u] = marker[item_of(u)]]
    /\ UNCHANGED <<off, blk, fol, job, van, views, sym, dup, fan, db, mat, flt, pag, gate, clock, run, stage, jobpc, to_dl, ureqs, ugot, uerr, resIdx,
                   meta, files, marker, markerPass, snap, prevOk, runReqs>>

\* lines 172-179: the marker check at the head of every iteration
dp_check(u) ==
    /\ upc[u] = "check"
    /\ upc' = [upc EXCEPT ![u] = IF marker_exists(item_of(u)) THEN "skipped" ELSE "fetch"]
    /\ UNCHANGED <<off, blk, fol, job, van, views, sym, dup, fan, db, mat, flt, pag, gate, clock, run, stage, jobpc, to_dl, upage, ureqs, ugot, uerr,
                   resIdx, meta, files, marker, markerPass, snap, prevOk, runReqs,
                   umark0>>

\* the ways self.retry_wrapper(partial(self.aapi.download, ...)) can end: one
\* per sequence of outcomes of the download calls it makes
download_results ==
    {retry_wrapper("download", outs, "ok") : outs \in [1..Attempts -> DownloadOutcomes]}

\* lines 181-185: the page is fetched through the Retry Gate
dp_fetch(u) ==
    /\ upc[u] = "fetch"
    /\ \E r \in download_results :
         LET ok == r.pc = "returned"
             i  == item_of(u)
             p  == to_dl[u][upage[u]].page_num
         IN  /\ ureqs' = [ureqs EXCEPT ![u] = Append(@, p)]
             /\ runReqs' = [runReqs EXCEPT ![i] = @ + 1]
             /\ ugot' = [ugot EXCEPT ![u] = IF ok THEN @ \cup {p} ELSE @]
             /\ files' = [files EXCEPT ![i] = IF ok THEN @ \cup {p} ELSE @]
             /\ uerr' = [uerr EXCEPT ![u] = r.err]
             /\ upc' = [upc EXCEPT ![u] = after_page(u, ok)]
             /\ upage' = [upage EXCEPT ![u] = IF after_page(u, ok) = "check" THEN @ + 1 ELSE @]
    /\ UNCHANGED <<off, blk, fol, job, van, views, sym, dup, fan, db, mat, flt, pag, gate, clock, run, stage, jobpc, to_dl, resIdx, meta, marker,
                   markerPass, snap, prevOk, umark0>>

\* lines 187-189: the marker is written after the loop
dp_mark(u) ==
    /\ upc[u] = "mark"
    /\ marker' = [marker EXCEPT ![item_of(u)] = marker_json(clock)]
    /\ markerPass' = [markerPass EXCEPT ![item_of(u)] = ugot[u]]
    /\ upc' = [upc EXCEPT ![u] = "done"]
    /\ UNCHANGED <<off, blk, fol, job, van, views, sym, dup, fan, db, mat, flt, pag, gate, clock, run, stage, jobpc, to_dl, upage, ureqs, ugot, uerr,
                   resIdx, meta, files, snap, prevOk, runReqs, umark0>>

(***************************************************************************)
(* The bookmark job: Downloader.download_bookmarks, run MaxRuns times.     *)
(***************************************************************************)
\* Downloader.store_illust_metadata: the snapshot raw/<id>/meta.json
store_illust_metadata(m, illust, now) ==
    [m EXCEPT ![illust.id] = meta_json(illust, now)]

RECURSIVE save_all(_, _, _)
save_all(m, illusts, now) ==
    IF illusts = <<>> THEN m
    ELSE save_all(store_illust_metadata(m, Head(illusts), now), Tail(illusts), now)

\* lines 568-599: bookmarks/<restrict> is created, the listing is recorded and
\* turned into units
JobList ==
    /\ jobpc = "list"
    /\ LET to_process == user_bookmarks_illust(RESTRICTS[stage])
           units == process_and_save_illusts(to_process)
       IN  /\ meta' = save_all(meta, to_process, clock)
           /\ to_dl' = units
           /\ upc' = [u \in 1..Len(units) |-> "pending"]
           /\ upage' = [u \in 1..Len(units) |-> 1]
           /\ ureqs' = [u \in 1..Len(units) |-> <<>>]
           /\ ugot' = [u \in 1..Len(units) |-> {}]
           /\ uerr' = [u \in 1..Len(units) |-> NoErr]
           /\ umark0' = [u \in 1..Len(units) |-> NoFile]
    /\ resIdx' = 0
    /\ views' = [views EXCEPT ![RESTRICTS[stage]].exists = TRUE]
    /\ jobpc' = "pool"
    /\ UNCHANGED <<off, blk, fol, job, van, sym, dup, fan, db, mat, flt, pag, gate, clock, run, stage, files, marker, markerPass, snap, prevOk,
                   runReqs>>

\* Future.result() of unit u re-raises the exception download_page left with
future_raises_mut(u) == FALSE
future_raises(u) == upc[u] = "failed"

\* list(e.map(...)) takes the results in submission order; an exception ends
\* the iteration, which cancels the futures that have not started
Collect ==
    /\ jobpc = "pool"
    /\ resIdx < Len(to_dl)
    /\ LET u == resIdx + 1
       IN  /\ upc[u] \in {"done", "skipped", "failed"}
           /\ IF future_raises(u)
              THEN /\ upc' = [v \in Units |-> IF upc[v] = "pending" THEN "cancelled"
                                                ELSE upc[v]]
                   /\ jobpc' = "unwind"
                   /\ resIdx' = resIdx
              ELSE /\ resIdx' = resIdx + 1
                   /\ UNCHANGED <<upc, jobpc>>
    /\ UNCHANGED <<off, blk, fol, job, van, views, sym, dup, fan, db, mat, flt, pag, gate, clock, run, stage, to_dl, upage, ureqs, ugot, uerr, meta,
                   files, marker, markerPass, snap, prevOk, runReqs, umark0>>

\* the with block is left normally: the next collection, or the end of the job
PoolExit ==
    /\ jobpc = "pool"
    /\ resIdx = Len(to_dl)
    /\ IF stage < Len(RESTRICTS)
       THEN stage' = stage + 1 /\ jobpc' = "list"
       ELSE stage' = stage /\ jobpc' = "finished"
    /\ UNCHANGED <<off, blk, fol, job, van, views, sym, dup, fan, db, mat, flt, pag, gate, clock, run, to_dl, upc, upage, ureqs, ugot, uerr, resIdx,
                   meta, files, marker, markerPass, snap, prevOk, runReqs, umark0>>

\* the with block is left by the exception: shutdown(wait=True) waits for the
\* running workers, then the exception leaves download_bookmarks and main
Unwind ==
    /\ jobpc = "unwind"
    /\ NumRunning = 0
    /\ jobpc' = "aborted"
    /\ UNCHANGED <<off, blk, fol, job, van, views, sym, dup, fan, db, mat, flt, pag, gate, clock, run, stage, to_dl, upc, upage, ureqs, ugot, uerr,
                   resIdx, meta, files, marker, markerPass, snap, prevOk, runReqs,
                   umark0>>

\* the program is started again, later, on the same mirror
StartRun ==
    /\ jobpc \in {"finished", "aborted"}
    /\ run < MaxRuns
    /\ run' = run + 1
    /\ clock' = clock + 1
    /\ stage' = 1
    /\ jobpc' = "list"
    /\ snap' = [meta |-> meta, files |-> files, marker |-> marker]
    /\ prevOk' = (jobpc = "finished")
    /\ runReqs' = [i \in Items |-> 0]
    /\ to_dl' = <<>>
    /\ upc' = <<>>
    /\ upage' = <<>>
    /\ ureqs' = <<>>
    /\ ugot' = <<>>
    /\ uerr' = <<>>
    /\ umark0' = <<>>
    /\ resIdx' = 0
    /\ UNCHANGED <<off, blk, fol, job, van, views, sym, dup, fan, db, mat, flt, pag, gate, meta, files, marker, markerPass>>

(***************************************************************************)
(* The remote listing endpoints.  A listing is a sequence of pages given   *)
(* by their batch sizes; its items are numbered 1, 2, ... in listing       *)
(* order.  An endless listing answers every request past its last page     *)
(* with an empty batch and one more continuation.  The continuation is a   *)
(* follow-up URL whose query string carries an unrelated pair first and    *)
(* then one pair per cursor parameter of the endpoint.                     *)
(***************************************************************************)
MaxK == 3
MaxBatch == 2
MaxCap == 2

\* max_items: None or an int
NoCap == [set |-> FALSE, n |-> 0]
Cap(n) == [set |-> TRUE, n |-> n]

\* next_url: None or a URL, of which only the query string matters
NoNext == [present |-> FALSE, query |-> <<>>]
NextUrl(q) == [present |-> TRUE, query |-> q]

NameBase(name) ==
    CASE name = "offset" -> 0
      [] name = "max_bookmark_id" -> 100
      [] name = "min_bookmark_id_for_recent_illust" -> 200
      [] name = "max_bookmark_id_for_recommend" -> 300
      [] OTHER -> 400

\* the value of cursor parameter `name` that asks for page c
cursor_value(name, c) == NameBase(name) + c - 1

RECURSIVE SumTo(_, _)
SumTo(sizes, n) == IF n = 0 THEN 0 ELSE sizes[n] + SumTo(sizes, n - 1)

\* the items of page c of a listing
batch(listing, c) ==
    IF c <= Len(listing.sizes)
    THEN [i \in 1..listing.sizes[c] |-> SumTo(listing.sizes, c - 1) + i]
    ELSE <<>>

\* the query string of the follow-up URL that leads to page c
next_query(names, c) ==
    <<<<"user_id", 7>>>> \o
    [j \in 1..Len(names) |->
        <<names[Len(names) + 1 - j], cursor_value(names[Len(names) + 1 - j], c)>>]

\* the page a request with keyword arguments kwargs asks for
page_of(kwargs) ==
    IF kwargs = <<>> THEN 1
    ELSE LET c == kwargs[1][2] - NameBase(kwargs[1][1]) + 1
         IN  IF c >= 1 THEN c ELSE 1

\* the response of the endpoint to meth(**kwargs)
respond(listing, names, kwargs) ==
    LET c == page_of(kwargs)
    IN  [illusts  |-> batch(listing, c),
         next_url |-> IF c < Len(listing.sizes) \/ listing.endless
                      THEN NextUrl(next_query(names, c + 1)) ELSE NoNext]

(***************************************************************************)
(* Paginator: Downloader.depaginate_download, and the caller that hands    *)
(* its result on (Downloader.download_ranking).                            *)
(***************************************************************************)
Ceiling == 9999

NoResult == [set |-> FALSE, items |-> <<>>]
Result(items) == [set |-> TRUE, items |-> items]

Min(a, b) == IF a <= b THEN a ELSE b

\* zip(param_names, next_params), the items of the keyword dict
zip(names, values) ==
    [i \in 1..Min(Len(names), Len(values)) |-> <<names[i], values[i]>>]

\* parse_qs(...)[key]: the values of the pairs of the query named key, in order
parse_qs(query, key) ==
    LET hits == SelectSeq(query, LAMBDA kv : kv[1] = key)
    IN  [i \in 1..Len(hits) |-> hits[i][2]]

\* [query[key][0] for key in param_names]
extract_positional(query, param_names) ==
    [j \in 1..Len(param_names) |-> query[j][2]]

extract(query, param_names) ==
    [j \in 1..Len(param_names) |-> parse_qs(query, param_names[j])[1]]

\* max_items is not None and len(to_process) >= max_items
cap_met(max_items, to_process) ==
    max_items.set /\ Len(to_process) >= max_items.n

\* whether range(0, 9999) yields x
in_range_wide(x) == x <= Ceiling
in_range(x) == x < Ceiling

\* what the gate can do with a listing call: the remote answers with the
\* response dict, a transient fault or a structured error
ListingOutcomes == TransientFaults \cup {RetDict, RetErr(GrantMsg), RetErr(RateMsg)}

\* what depaginate_download sees of a gate run: how it ended, the exception
\* it raised and how often it invoked the listing method
seen(g) == [pc |-> g.pc, err |-> g.err, calls |-> g.calls]

listing_results ==
    {seen(retry_wrapper("listing", outs, a)) :
        outs \in [1..Attempts -> ListingOutcomes], a \in AuthOutcomes}

clean_results == {seen(retry_wrapper("listing", [k \in 1..Attempts |-> RetDict], "ok"))}

\* download_ranking: depaginate_download(method, param_names=("offset",))
Ranking == [param_names |-> <<"offset">>, initial_params |-> <<>>]

Endpoints ==
    { [param_names |-> <<"max_bookmark_id">>, initial_params |-> <<>>],
      Ranking,
      [param_names |-> <<"offset">>, initial_params |-> <<cursor_value("offset", 1)>>],
      [param_names |-> <<"min_bookmark_id_for_recent_illust",
                         "max_bookmark_id_for_recommend", "offset">>,
       initial_params |-> <<>>] }

Caps == {NoCap} \cup {Cap(n) : n \in 0..MaxCap}

FiniteListings ==
    UNION { {[sizes |-> sz, endless |-> FALSE] : sz \in [1..K -> 0..MaxBatch]} :
            K \in 1..MaxK }

EndlessListing == [sizes |-> <<1>>, endless |-> TRUE]

\* the calls of depaginate_download considered
PagCalls ==
    { [listing |-> l, param_names |-> e.param_names,
       initial_params |-> e.initial_params, max_items |-> m, faulty |-> FALSE] :
        l \in FiniteListings, e \in Endpoints, m \in Caps }
    \cup
    { [listing |-> l, param_names |-> Ranking.param_names,
       initial_params |-> Ranking.initial_params, max_items |-> NoCap,
       faulty |-> TRUE] : l \in FiniteListings }
    \cup
    { [listing |-> EndlessListing, param_names |-> Ranking.param_names,
       initial_params |-> Ranking.initial_params, max_items |-> NoCap,
       faulty |-> FALSE] }

PagIdle ==
    [pc |-> "idle", args |-> [listing |-> EndlessListing, param_names |-> <<>>,
                              initial_params |-> <<>>, max_items |-> NoCap,
                              faulty |-> FALSE],
     x |-> 0, next_params |-> <<>>, kwargs |-> <<>>, to_process |-> <<>>,
     fetches |-> 0, calls |-> 0, sleeps |-> 0, inflight |-> 0,
     err |-> NoErr, result |-> NoResult, handed |-> NoResult]

\* lines 371-373: next_params = initial_params; to_process = []
PagEnter ==
    /\ pag.pc = "idle"
    /\ \E a \in PagCalls :
         pag' = [PagIdle EXCEPT !.pc = "top", !.args = a,
                                !.next_params = a.initial_params]
    /\ UNCHANGED <<off, blk, fol, job, van, views, sym, dup, fan, db, mat, gate, poolvars, flt>>

\* lines 375-382: the loop yields x and the listing call enters the gate
PagCall ==
    /\ pag.pc = "top"
    /\ in_range(pag.x)
    /\ pag' = [pag EXCEPT !.pc = "wait", !.inflight = @ + 1,
                          !.kwargs = IF pag.next_params = <<>> THEN <<>>
                                     ELSE zip(pag.args.param_names, pag.next_params)]
    /\ UNCHANGED <<off, blk, fol, job, van, views, sym, dup, fan, db, mat, gate, poolvars, flt>>

\* line 405: the range is used up
PagCeiling ==
    /\ pag.pc = "top"
    /\ ~in_range(pag.x)
    /\ pag' = [pag EXCEPT !.pc = "returned", !.result = Result(pag.to_process)]
    /\ UNCHANGED <<off, blk, fol, job, van, views, sym, dup, fan, db, mat, gate, poolvars, flt>>

\* the gate raised: the exception leaves depaginate_download
pag_fail_partial(p, r) ==
    [p EXCEPT !.pc = "returned", !.inflight = @ - 1, !.calls = @ + r.calls,
              !.err = r.err, !.result = Result(p.to_process)]

pag_fail(p, r) ==
    [p EXCEPT !.pc = "raised", !.inflight = @ - 1, !.calls = @ + r.calls,
              !.err = r.err]

\* lines 384-403: the gate returned the response
pag_response(p, r) ==
    LET response == respond(p.args.listing, p.args.param_names, p.kwargs)
        tp == p.to_process \o response.illusts
        q  == [p EXCEPT !.inflight = @ - 1, !.calls = @ + r.calls,
                        !.fetches = @ + 1, !.to_process = tp]
    IN  IF cap_met(p.args.max_items, tp)
        THEN [q EXCEPT !.pc = "returned", !.result = Result(tp)]
        ELSE IF response.next_url.present
        THEN [q EXCEPT !.next_params = extract(response.next_url.query,
                                               p.args.param_names),
                       !.pc = "sleep"]
        ELSE [q EXCEPT !.pc = "returned", !.result = Result(tp)]

PagResp ==
    /\ pag.pc = "wait"
    /\ \E r \in (IF pag.args.faulty THEN listing_results ELSE clean_results) :
         pag' = IF r.pc = "raised" THEN pag_fail(pag, r) ELSE pag_response(pag, r)
    /\ UNCHANGED <<off, blk, fol, job, van, views, sym, dup, fan, db, mat, gate, poolvars, flt>>

\* line 403: time.sleep(1.5), then the loop goes on
PagSleep ==
    /\ pag.pc = "sleep"
    /\ pag' = [pag EXCEPT !.pc = "top", !.sleeps = @ + 1, !.x = @ + 1]
    /\ UNCHANGED <<off, blk, fol, job, van, views, sym, dup, fan, db, mat, gate, poolvars, flt>>

\* download_ranking, lines 774-776: the list goes to save_profile_pics and
\* process_and_save_illusts, whose output goes to the pool
RankingHand ==
    /\ pag.pc = "returned"
    /\ pag' = [pag EXCEPT !.pc = "handed", !.handed = pag.result]
    /\ UNCHANGED <<off, blk, fol, job, van, views, sym, dup, fan, db, mat, gate, poolvars, flt>>

PagNext == PagEnter \/ PagCall \/ PagCeiling \/ PagResp \/ PagSleep \/ RankingHand

(***************************************************************************)
(* Item Filter: Downloader.filter_illust, the policy that main() builds    *)
(* from the command line and the config file, and the blacklist table      *)
(* filled by Downloader.blacklist.                                         *)
(***************************************************************************)
\* an optional int: None or a number
Unset == [set |-> FALSE, n |-> 0]
Limit(n) == [set |-> TRUE, n |-> n]

\* a blacklist row; a column that is NULL holds 0 (ids) or "" (tag)
Row(author_id, artwork_id, tag) ==
    [author_id |-> author_id, artwork_id |-> artwork_id, tag |-> tag]

\* the return value (msg is not None, msg); a message is its kind and the
\* values formatted into it
NoMsg == [kind |-> "none", nums |-> <<>>, tags |-> {}, rows |-> <<>>]
Msg(kind, nums, tags, rows) == [kind |-> kind, nums |-> nums, tags |-> tags, rows |-> rows]
Verdict(msg) == [filtered |-> msg # NoMsg, msg |-> msg]

\* lines 445-447: the lower-cased values of every tag dict, None and "" left out
item_tags(illust) ==
    UNION { {lower(td.name), lower(td.translated_name)} \ {""} :
            td \in {illust.tags[k] : k \in 1..Len(illust.tags)} }

\* lines 488-495: the first row whose author, artwork or tag matches
blacklist_first(rows, illust, tags) ==
    SelectSeq(rows, LAMBDA r : \/ r.author_id = illust.user.id
                               \/ r.artwork_id = illust.id
                               \/ r.tag \in tags)

\* line 452: pages = illust["meta_pages"]
pages_of(illust) == Len(illust.meta_pages)

\* lines 462-497: the chain under `elif self.should_filter`
filter_rules(illust, policy, rows) ==
    LET lewd_level == illust.sanity_level
        tags == item_tags(illust)
        filtered == tags \cap policy.filtered_tags
        required == tags \cap policy.required_tags
        bookmarks == illust.total_bookmarks
        pages == pages_of(illust)
        max_bm == policy.bookmark_limits[2]
        min_bm == policy.bookmark_limits[1]
        max_lewd == policy.lewd_limits[2]
        min_lewd == policy.lewd_limits[1]
        hits == blacklist_first(rows, illust, tags)
    IN  IF illust.x_restrict # 0 /\ ~policy.allow_r18
        THEN Msg("r18", <<>>, {}, <<>>)
        ELSE IF min_lewd.set /\ lewd_level < min_lewd.n
        THEN Msg("lewd_below", <<lewd_level, min_lewd.n>>, {}, <<>>)
        ELSE IF max_lewd.set /\ lewd_level > max_lewd.n
        THEN Msg("lewd_above", <<lewd_level, max_lewd.n>>, {}, <<>>)
        ELSE IF policy.filtered_tags # {} /\ filtered # {}
        THEN Msg("filtered_tags", <<>>, filtered, <<>>)
        ELSE IF policy.required_tags # {} /\ required = {}
        THEN Msg("required_tags", <<>>, policy.required_tags, <<>>)
        ELSE IF max_bm.set /\ bookmarks > max_bm.n
        THEN Msg("bookmarks_above", <<bookmarks, max_bm.n>>, {}, <<>>)
        ELSE IF min_bm.set /\ bookmarks < min_bm.n
        THEN Msg("bookmarks_below", <<bookmarks, min_bm.n>>, {}, <<>>)
        ELSE IF policy.max_pages.set /\ pages > policy.max_pages.n
        THEN Msg("pages_above", <<pages, policy.max_pages.n>>, {}, <<>>)
        ELSE IF hits # <<>>
        THEN Msg("blacklisted", <<>>, {}, <<hits[1]>>)
        ELSE NoMsg

\* Downloader.filter_illust
filter_illust_flagless(illust, policy, rows) ==
    IF ~illust.visible
    THEN Verdict(Msg("not_visible", <<>>, {}, <<>>))
    ELSE Verdict(filter_rules(illust, policy, rows))

filter_illust(illust, policy, rows) ==
    IF ~illust.visible
    THEN Verdict(Msg("not_visible", <<>>, {}, <<>>))
    ELSE IF policy.should_filter
    THEN Verdict(filter_rules(illust, policy, rows))
    ELSE Verdict(NoMsg)

\* the illustrations handed to the filter: author 1, artwork 1
TagLists ==
    { <<>>,
      <<[name |-> "Cat", translated_name |-> ""]>>,
      <<[name |-> "neko", translated_name |-> "CAT"], [name |-> "dog", translated_name |-> ""]>>,
      <<[name |-> "dog", translated_name |-> ""]>> }

FilterItems ==
    { [id |-> 1, user |-> [id |-> 1], visible |-> v, x_restrict |-> x,
       sanity_level |-> l, tags |-> t, total_bookmarks |-> b,
       page_count |-> Illust(n).page_count, meta_pages |-> Illust(n).meta_pages] :
        v \in BOOLEAN, x \in {0, 1}, l \in {2, 6}, t \in TagLists, b \in {1, 9},
        n \in {1, 3} }

\* the command lines considered: what the user entered, as entered
Jobs == {"bookmarks", "ranking"}
CommandLines ==
    { [job |-> j, filter_bookmarks |-> fb, allow_r18 |-> r, lewd_limits |-> ll,
       filter_tag |-> ft, require_tag |-> rt, bookmark_limits |-> bl,
       max_pages |-> mp] :
        j \in Jobs, fb \in BOOLEAN, r \in BOOLEAN,
        ll \in {<<Unset, Unset>>, <<Limit(4), Unset>>, <<Unset, Limit(4)>>},
        ft \in {{}, {"Cat"}}, rt \in {{}, {"DOG"}},
        bl \in {<<Unset, Unset>>, <<Limit(5), Unset>>, <<Unset, Limit(5)>>},
        mp \in {Unset, Limit(0), Limit(2)} }

\* the blacklist subcommands considered
BlacklistArgs ==
    { Row(1, 0, ""), Row(0, 9, ""), Row(0, 0, "Cat"), Row(0, 0, "cat") }

NoPolicy ==
    [should_filter |-> TRUE, allow_r18 |-> FALSE, lewd_limits |-> <<Unset, Unset>>,
     filtered_tags |-> {}, required_tags |-> {},
     bookmark_limits |-> <<Unset, Unset>>, max_pages |-> Unset]

NoCommand ==
    [job |-> "none", filter_bookmarks |-> FALSE, allow_r18 |-> FALSE,
     lewd_limits |-> <<Unset, Unset>>, filter_tag |-> {}, require_tag |-> {},
     bookmark_limits |-> <<Unset, Unset>>, max_pages |-> Unset]

FilterIdle ==
    [pc |-> "idle", cmd |-> NoCommand, policy |-> NoPolicy, rows |-> <<>>,
     illust |-> [id |-> 0], out |-> Verdict(NoMsg)]

\* Downloader.blacklist: the row holds the arguments as given
BlacklistAdd ==
    /\ flt.pc = "idle"
    /\ flt.rows = <<>>
    /\ \E a \in BlacklistArgs : flt' = [flt EXCEPT !.rows = Append(@, a)]
    /\ UNCHANGED <<off, blk, fol, job, van, views, sym, dup, fan, db, mat, gate, poolvars, pag>>

\* main() builds the Downloader; download_bookmarks replaces should_filter
\* by the filter_bookmarks setting, every other job keeps True
Configure ==
    /\ flt.pc = "idle"
    /\ \E c \in CommandLines :
         /\ c.job # "bookmarks" => ~c.filter_bookmarks
         /\ flt' = [flt EXCEPT
               !.pc = "job",
               !.cmd = c,
               !.policy = [should_filter |-> IF c.job = "bookmarks"
                                             THEN c.filter_bookmarks ELSE TRUE,
                           allow_r18 |-> c.allow_r18,
                           lewd_limits |-> c.lewd_limits,
                           filtered_tags |-> {lower(x) : x \in c.filter_tag},
                           required_tags |-> {lower(x) : x \in c.require_tag},
                           bookmark_limits |-> c.bookmark_limits,
                           max_pages |-> c.max_pages]]
    /\ UNCHANGED <<off, blk, fol, job, van, views, sym, dup, fan, db, mat, gate, poolvars, pag>>

\* process_and_save_illusts, line 516: filtered, msg = self.filter_illust(illust)
FilterCall ==
    /\ flt.pc = "job"
    /\ \E illust \in FilterItems :
         flt' = [flt EXCEPT !.pc = "done", !.illust = illust,
                            !.out = filter_illust(illust, flt.policy, flt.rows)]
    /\ UNCHANGED <<off, blk, fol, job, van, views, sym, dup, fan, db, mat, gate, poolvars, pag>>

\* process_and_save_illusts lines 516-523: an item that is not filtered is
\* recorded (Item row, meta.json) and turned into a download unit
ingested(out) == ~out.filtered

\* webserver db_delete_artwork on the item the job has just ingested, the
\* blacklist being empty: the Item row exists, so its rows and raw/<id> are
\* removed and Blacklist(artwork_id=id) is added; the next job starts from
\* there
DeleteArtwork ==
    /\ flt.pc = "done"
    /\ ingested(flt.out)
    /\ flt.rows = <<>>
    /\ flt' = [FilterIdle EXCEPT !.rows = <<Row(0, flt.illust.id, "")>>]
    /\ UNCHANGED <<off, blk, fol, job, van, views, sym, dup, fan, db, mat, gate, poolvars, pag>>

FilterNext == BlacklistAdd \/ Configure \/ FilterCall \/ DeleteArtwork

(***************************************************************************)
(* Page Materializer: Downloader.make_downloadable applied to the payloads *)
(* the remote can send: any page count, any list of page URLs.             *)
(***************************************************************************)
MaxPageCount == 3

PageUrls == {<<1, p>> : p \in 1..MaxPageCount}
SingleUrl == <<1, 0>>

MatItems ==
    { [id |-> 1, page_count |-> n, meta_single_page |-> SingleUrl, meta_pages |-> mp] :
        n \in 1..MaxPageCount,
        mp \in UNION { [1..k -> PageUrls] : k \in 0..MaxPageCount } }

MatIdle == [pc |-> "idle", illust |-> [id |-> 0], obs |-> <<>>]

\* process_and_save_illusts, line 523: obs = self.make_downloadable(illust)
Materialize ==
    /\ mat.pc = "idle"
    /\ \E illust \in MatItems :
         mat' = [pc |-> "done", illust |-> illust, obs |-> make_downloadable(illust)]
    /\ UNCHANGED <<off, blk, fol, job, van, views, sym, dup, fan, db, gate, poolvars, pag, flt>>

MatNext == Materialize

(***************************************************************************)
(* Metadata Recorder: the database half of store_illust_metadata, run by   *)
(* process_and_save_illusts inside one DB.session() per batch.  A table is *)
(* the set of its rows.  The session keeps the objects it was handed until *)
(* session.flush(), which executes their statements one after the other    *)
(* inside the transaction; the transaction is committed when the with      *)
(* block is left normally and rolled back when it is left by an exception. *)
(***************************************************************************)
MaxBatchLen == 2
MaxSessions == 2

StoreItems == {1, 2}
Versions == {1, 2}

\* the tags of a payload: the first version repeats a tag name and leaves b
\* untranslated, the second has no translation for a and one for b
TagsOf(v) ==
    IF v = 1
    THEN <<[name |-> "a", translated_name |-> "x"], [name |-> "a", translated_name |-> ""],
           [name |-> "b", translated_name |-> ""]>>
    ELSE <<[name |-> "a", translated_name |-> ""], [name |-> "b", translated_name |-> "y"]>>

\* the payload of item i as the remote sends it at its v-th encounter; both
\* items are by author 1
Payload(i, v) ==
    [id |-> i, title |-> <<"title", i, v>>, caption |-> <<"caption", i, v>>,
     create_date |-> v, page_count |-> v, x_restrict |-> v - 1, restrict |-> 2 - v,
     sanity_level |-> 2 * v, total_bookmarks |-> v, total_views |-> 10 * v,
     is_bookmarked |-> (v = 1),
     user |-> [id |-> 1, name |-> <<"name", v>>, account |-> <<"account", v>>],
     tags |-> TagsOf(v)]

Payloads == {Payload(i, v) : i \in StoreItems, v \in Versions}

Batches == UNION { [1..n -> Payloads] : n \in 1..MaxBatchLen }

EmptyTables == [artwork |-> {}, author |-> {}, artwork_tag |-> {}]

\* session.query(T).filter(...).first() for a filter that fits one row at most
first_row(rows) == IF rows = {} THEN {} ELSE {CHOOSE r \in rows : TRUE}

\* lines 279-299: step 1, the artwork
upsert_artwork_overwrites(t, illust) ==
    [id |-> illust.id, title |-> illust.title, caption |-> illust.caption,
     uploaded_at |-> illust.create_date, page_count |-> illust.page_count,
     single_page |-> (illust.page_count = 1), r18 |-> (illust.x_restrict # 0),
     r18g |-> (illust.restrict # 0), lewd_level |-> illust.sanity_level,
     bookmarks |-> illust.total_bookmarks, views |-> illust.total_views,
     is_bookmarked |-> illust.is_bookmarked, author_id |-> illust.user.id]

upsert_artwork(t, illust) ==
    LET found == first_row({r \in t.artwork : r.id = illust.id})
        artwork == IF found = {}
                   THEN [id |-> illust.id, title |-> illust.title,
                         caption |-> illust.caption,
                         uploaded_at |-> illust.create_date,
                         page_count |-> illust.page_count,
                         single_page |-> (illust.page_count = 1),
                         r18 |-> (illust.x_restrict # 0),
                         r18g |-> (illust.restrict # 0),
                         lewd_level |-> illust.sanity_level,
                         bookmarks |-> 0, views |-> 0, is_bookmarked |-> FALSE,
                         author_id |-> 0]
                   ELSE CHOOSE r \in found : TRUE
    IN  [artwork EXCEPT !.bookmarks = illust.total_bookmarks,
                        !.views = illust.total_views,
                        !.is_bookmarked = illust.is_bookmarked,
                        !.author_id = illust.user.id]

\* lines 301-312: step 2, the author
upsert_author(t, illust) ==
    LET found == first_row({r \in t.author : r.id = illust.user.id})
    IN  IF found = {}
        THEN [id |-> illust.user.id, name |-> illust.user.name,
              account_name |-> illust.user.account]
        ELSE [(CHOOSE r \in found : TRUE) EXCEPT !.name = illust.user.name]

\* lines 334-337: update translations if needed
refresh_translation_always(old, tag) == tag.translated_name
refresh_translation(old, tag) ==
    IF tag.translated_name # "" THEN tag.translated_name ELSE old

\* lines 316-339: step 3, the tags; a new object has no id yet (0)
RECURSIVE upsert_tags(_, _, _, _)
upsert_tags(t, illust_id, tags, seen_keys) ==
    IF tags = <<>> THEN <<>>
    ELSE LET tag == Head(tags)
         IN  IF tag.name \in seen_keys
             THEN upsert_tags(t, illust_id, Tail(tags), seen_keys)
             ELSE LET found == first_row({r \in t.artwork_tag :
                                  r.artwork_id = illust_id /\ r.name = tag.name})
                      arttag == IF found = {}
                                THEN [id |-> 0, name |-> tag.name,
                                      artwork_id |-> illust_id, translated_name |-> ""]
                                ELSE CHOOSE r \in found : TRUE
                  IN  <<[arttag EXCEPT !.translated_name = refresh_translation(@, tag)]>>
                      \o upsert_tags(t, illust_id, Tail(tags), seen_keys \cup {tag.name})

\* the statements session.flush() executes for one store_illust_metadata call:
\* the author first, then the artwork that refers to it, then its tags
Stmt(table, row) == [table |-> table, row |-> row]

store_statements(t, illust) ==
    LET tagrows == upsert_tags(t, illust.id, illust.tags, {})
    IN  <<Stmt("author", upsert_author(t, illust)),
          Stmt("artwork", upsert_artwork(t, illust))>>
        \o [k \in 1..Len(tagrows) |-> Stmt("artwork_tag", tagrows[k])]

\* AUTOINCREMENT: the id an inserted artwork_tag row gets
next_id(rows) ==
    IF rows = {} THEN 1
    ELSE 1 + (CHOOSE n \in {r.id : r \in rows} : \A r \in rows : r.id <= n)

\* UniqueConstraint("name", "artwork_id")
violates_unique(t, st) ==
    /\ st.table = "artwork_tag"
    /\ \E r \in t.artwork_tag :
          r.name = st.row.name /\ r.artwork_id = st.row.artwork_id /\ r.id # st.row.id

\* one INSERT or UPDATE: the row replaces the row with its primary key
execute(t, st) ==
    LET row == IF st.table = "artwork_tag" /\ st.row.id = 0
               THEN [st.row EXCEPT !.id = next_id(t.artwork_tag)]
               ELSE st.row
    IN  [t EXCEPT ![st.table] = {r \in @ : r.id # row.id} \cup {row}]

\* what a statement leaves in the committed tables while the transaction is open
autocommits(committed, tx) == tx
in_transaction(committed, tx) == committed

\* DB.session lines 41-47: what is committed when the with block is left
session_exit_commits(committed, tx, raised) == tx
session_exit(committed, tx, raised) == IF raised THEN committed ELSE tx

StoreIdle ==
    [pc |-> "idle", committed |-> EmptyTables, tx |-> EmptyTables, batch |-> <<>>,
     idx |-> 0, pending |-> <<>>, pre |-> EmptyTables, sessions |-> 0,
     lost |-> FALSE]

\* line 512: with self.db.session() as session
SessionBegin ==
    /\ db.pc \in {"idle", "committed", "rolled_back", "crashed"}
    /\ db.sessions < MaxSessions
    /\ \E b \in Batches :
         db' = [db EXCEPT !.pc = "item", !.batch = b, !.idx = 1, !.pending = <<>>,
                          !.tx = db.committed, !.pre = db.committed,
                          !.sessions = @ + 1, !.lost = FALSE]
    /\ UNCHANGED <<off, blk, fol, job, van, views, sym, dup, fan, gate, poolvars, pag, flt, mat>>

\* lines 279-343: the objects of the next item are built and handed to the session
StorePrepare ==
    /\ db.pc = "item"
    /\ db.idx <= Len(db.batch)
    /\ db' = [db EXCEPT !.pc = "flush", !.pre = db.tx,
                        !.pending = store_statements(db.tx, db.batch[db.idx])]
    /\ UNCHANGED <<off, blk, fol, job, van, views, sym, dup, fan, gate, poolvars, pag, flt, mat>>

\* line 350: session.flush() executes the next statement
FlushStep ==
    /\ db.pc = "flush"
    /\ db.pending # <<>>
    /\ LET st == Head(db.pending)
       IN  IF violates_unique(db.tx, st)
           THEN db' = [db EXCEPT !.pc = "rolled_back",
                                 !.committed = session_exit(db.committed, db.tx, TRUE),
                                 !.tx = session_exit(db.committed, db.tx, TRUE),
                                 !.lost = db.tx # db.committed,
                                 !.pending = <<>>, !.pre = db.committed,
                                 !.batch = <<>>, !.idx = 0]
           ELSE db' = [db EXCEPT !.tx = execute(db.tx, st),
                                 !.committed = in_transaction(db.committed,
                                                              execute(db.tx, st)),
                                 !.pending = Tail(db.pending)]
    /\ UNCHANGED <<off, blk, fol, job, van, views, sym, dup, fan, gate, poolvars, pag, flt, mat>>

\* the flush is complete: the loop goes on to the next item
StoreNextItem ==
    /\ db.pc = "flush"
    /\ db.pending = <<>>
    /\ db' = [db EXCEPT !.pc = "item", !.idx = @ + 1]
    /\ UNCHANGED <<off, blk, fol, job, van, views, sym, dup, fan, gate, poolvars, pag, flt, mat>>

\* db.py line 47: the with block is left normally, session.commit()
SessionCommit ==
    /\ db.pc = "item"
    /\ db.idx > Len(db.batch)
    /\ db' = [db EXCEPT !.pc = "committed",
                        !.committed = session_exit(db.committed, db.tx, FALSE),
                        !.pre = db.tx, !.batch = <<>>, !.idx = 0]
    /\ UNCHANGED <<off, blk, fol, job, van, views, sym, dup, fan, gate, poolvars, pag, flt, mat>>

\* db.py lines 43-45: an exception leaves the with block, session.rollback()
SessionRaise ==
    /\ db.pc \in {"item", "flush"}
    /\ db' = [db EXCEPT !.pc = "rolled_back",
                        !.committed = session_exit(db.committed, db.tx, TRUE),
                        !.tx = session_exit(db.committed, db.tx, TRUE),
                        !.lost = db.tx # db.committed,
                        !.pending = <<>>, !.pre = db.committed, !.batch = <<>>, !.idx = 0]
    /\ UNCHANGED <<off, blk, fol, job, van, views, sym, dup, fan, gate, poolvars, pag, flt, mat>>

\* the process dies: the open transaction is lost
Crash ==
    /\ db.pc \in {"item", "flush"}
    /\ db' = [db EXCEPT !.pc = "crashed", !.tx = db.committed, !.pending = <<>>]
    /\ UNCHANGED <<off, blk, fol, job, van, views, sym, dup, fan, gate, poolvars, pag, flt, mat>>

StoreNext ==
    \/ SessionBegin \/ StorePrepare \/ FlushStep \/ StoreNextItem
    \/ SessionCommit \/ SessionRaise \/ Crash

(***************************************************************************)
(* One fan-out over a thread pool: ThreadPoolExecutor(n).map(fn, work).    *)
(* The item fan-out maps download_page over the download units of a job in *)
(* a pool of 4, the avatar fan-out maps download_author_pic over the       *)
(* unique authors in a pool of 8.  The work list is longer than the pool.  *)
(* A job says which items (authors, in the avatar job) the mirror holds    *)
(* already; in the avatar job it also says for which authors the remote    *)
(* fails, in the item job every fetch can fail.                            *)
(* Worker threads are interchangeable: the pool is described by how many   *)
(* of its threads are inside a call.                                       *)
(***************************************************************************)
ExtraUnits == 1

AvatarPoolSize == 8

\* an illustration of the listing: odd ids have one page, even ids two
FanIllust(i) ==
    [id |-> i, page_count |-> IF i % 2 = 1 THEN 1 ELSE 2,
     meta_single_page |-> IF i % 2 = 1 THEN <<i, 1>> ELSE NoUrl,
     meta_pages |-> IF i % 2 = 1 THEN <<>> ELSE [p \in 1..2 |-> <<i, p>>],
     user |-> [id |-> (i + 1) \div 2]]

\* save_profile_pics lines 541-548: one entry per author, in first-seen order
RECURSIVE unique_users(_, _)
unique_users(to_process, seen_ids) ==
    IF to_process = <<>> THEN <<>>
    ELSE IF Head(to_process).user.id \in seen_ids
         THEN unique_users(Tail(to_process), seen_ids)
         ELSE <<Head(to_process).user>> \o
              unique_users(Tail(to_process), seen_ids \cup {Head(to_process).user.id})

FanJobs ==
    { [kind |-> "item", max_workers |-> PoolSize,
       to_process |-> [i \in 1..(PoolSize + ExtraUnits) |-> FanIllust(i)],
       mirrored |-> m, faulty |-> {}] : m \in {{}, {2}} }
    \cup
    { [kind |-> "avatar", max_workers |-> AvatarPoolSize,
       to_process |-> [i \in 1..(2 * (AvatarPoolSize + ExtraUnits)) |-> FanIllust(i)],
       mirrored |-> m, faulty |-> f] :
        m \in {{}, {2}}, f \in {{}, {3}} }

FanIdle ==
    [pc |-> "idle", kind |-> "none", max_workers |-> 0, work |-> <<>>, st |-> <<>>,
     pos |-> <<>>, log |-> <<>>, marked |-> {}, faulty |-> {},
     collected |-> 0]

FanWork == 1..Len(fan.work)
FanRunning == {u \in FanWork : fan.st[u] = "running"}

\* whether self.retry_wrapper(partial(self.aapi.download, ...)) returns
download_returns == {r.pc = "returned" : r \in download_results}

\* the number of worker threads that are not inside a call
idle_workers_spawning == Len(fan.work) - Cardinality(FanRunning)
idle_workers == fan.max_workers - Cardinality(FanRunning)

\* with ThreadPoolExecutor(n) as e: e.map(fn, work) submits every work item
FanEnter ==
    /\ fan.pc = "idle"
    /\ \E j \in FanJobs :
         LET work == IF j.kind = "item" THEN process_and_save_illusts(j.to_process)
                     ELSE [k \in 1..Len(unique_users(j.to_process, {})) |->
                              <<unique_users(j.to_process, {})[k]>>]
         IN  fan' = [pc |-> "map", kind |-> j.kind, max_workers |-> j.max_workers,
                     work |-> work,
                     st |-> [u \in 1..Len(work) |-> "pending"],
                     pos |-> [u \in 1..Len(work) |-> 1],
                     log |-> [u \in 1..Len(work) |-> <<>>],
                     marked |-> j.mirrored, faulty |-> j.faulty, collected |-> 0]
    /\ UNCHANGED <<off, blk, fol, job, van, views, sym, dup, gate, poolvars, pag, flt, mat, db>>

\* a worker thread takes the oldest pending work item off the queue
FanTake ==
    /\ fan.pc \in {"map", "unwind"}
    /\ idle_workers > 0
    /\ \E u \in FanWork :
         /\ fan.st[u] = "pending"
         /\ \A v \in FanWork : v < u => fan.st[v] # "pending"
         /\ fan' = [fan EXCEPT !.st[u] = "running"]
    /\ UNCHANGED <<off, blk, fol, job, van, views, sym, dup, gate, poolvars, pag, flt, mat, db>>

\* download_page lines 171-185: one iteration of the loop over the pages,
\* run by the worker that took the unit
FanPage(u) ==
    /\ fan.kind = "item"
    /\ fan.st[u] = "running"
    /\ fan.pos[u] <= Len(fan.work[u])
    /\ LET item == fan.work[u][fan.pos[u]]
       IN  IF item.id \in fan.marked
           THEN fan' = [fan EXCEPT !.st[u] = "skipped"]
           ELSE \E ok \in download_returns :
                  fan' = [fan EXCEPT
                            !.log[u] = Append(@, item.page_num),
                            !.pos[u] = IF ok THEN @ + 1 ELSE @,
                            !.st[u] = IF ok THEN @ ELSE "failed"]
    /\ UNCHANGED <<off, blk, fol, job, van, views, sym, dup, gate, poolvars, pag, flt, mat, db>>

\* download_page lines 187-189: the marker is written after the loop
FanMark(u) ==
    /\ fan.kind = "item"
    /\ fan.st[u] = "running"
    /\ fan.pos[u] > Len(fan.work[u])
    /\ fan' = [fan EXCEPT !.st[u] = "done",
                          !.marked = @ \cup {fan.work[u][1].id}]
    /\ UNCHANGED <<off, blk, fol, job, van, views, sym, dup, gate, poolvars, pag, flt, mat, db>>

\* download_author_pic: the picture is there already, or it is fetched
\* through the Retry Gate
FanAvatar(u) ==
    /\ fan.kind = "avatar"
    /\ fan.st[u] = "running"
    /\ LET user == fan.work[u][1]
       IN  IF user.id \in fan.marked
           THEN fan' = [fan EXCEPT !.st[u] = "skipped"]
           ELSE \E ok \in {r \in download_returns : r = (user.id \notin fan.faulty)} :
                  fan' = [fan EXCEPT !.log[u] = Append(@, 1),
                                     !.st[u] = IF ok THEN "done" ELSE "failed"]
    /\ UNCHANGED <<off, blk, fol, job, van, views, sym, dup, gate, poolvars, pag, flt, mat, db>>

\* list(e.map(...)) takes the results in submission order; an exception ends
\* the iteration, which cancels the work items that have not started
FanCollect ==
    /\ fan.pc = "map"
    /\ fan.collected < Len(fan.work)
    /\ LET u == fan.collected + 1
       IN  /\ fan.st[u] \in {"done", "skipped", "failed"}
           /\ IF fan.st[u] = "failed"
              THEN fan' = [fan EXCEPT !.pc = "unwind",
                              !.st = [v \in FanWork |->
                                        IF fan.st[v] = "pending" THEN "cancelled"
                                        ELSE fan.st[v]]]
              ELSE fan' = [fan EXCEPT !.collected = @ + 1]
    /\ UNCHANGED <<off, blk, fol, job, van, views, sym, dup, gate, poolvars, pag, flt, mat, db>>

\* the with block is left: shutdown(wait=True) has waited for the workers
FanExit ==
    /\ \/ fan.pc = "map" /\ fan.collected = Len(fan.work)
       \/ fan.pc = "unwind"
    /\ FanRunning = {}
    /\ fan' = [fan EXCEPT !.pc = IF fan.pc = "map" THEN "left" ELSE "raised"]
    /\ UNCHANGED <<off, blk, fol, job, van, views, sym, dup, gate, poolvars, pag, flt, mat, db>>

FanNext ==
    \/ FanEnter
    \/ FanTake
    \/ \E u \in FanWork : FanPage(u)
    \/ \E u \in FanWork : FanMark(u)
    \/ \E u \in FanWork : FanAvatar(u)
    \/ FanCollect
    \/ FanExit

(***************************************************************************)
(* Two download units of the same item running at the same time: the item  *)
(* is listed twice in one job, or two jobs list it.  aapi.download with    *)
(* replace=True overwrites the page file in place: it is opened for        *)
(* writing, which empties it, and filled from the response stream.  Two    *)
(* units writing one file race; the file is whole once the unit that       *)
(* opened it last has written it to the end.                               *)
(***************************************************************************)
Twins == {1, 2}

\* how a gated download can go: the number of aapi.download calls made and
\* whether the last of them returned
DupPlans == {[calls |-> r.calls, ok |-> r.pc = "returned"] : r \in download_results}

NoPlan == [calls |-> 0, ok |-> FALSE]

DupIdle ==
    [pc |-> "idle", work |-> <<>>, st |-> [u \in Twins |-> "idle"],
     pos |-> [u \in Twins |-> 0], plan |-> [u \in Twins |-> NoPlan],
     file |-> <<>>, last |-> <<>>, marker |-> FALSE]

\* the page the loop of unit u is at
dup_page(u) == dup.work[dup.pos[u]].page_num

\* the state of a page file when a writer closes it
file_closed(u, p) == IF dup.last[p] = u THEN "complete" ELSE dup.file[p]

\* the pool starts download_page on both units of the item
DupEnter ==
    /\ dup.pc = "idle"
    /\ \E i \in 1..2 :
         LET work == make_downloadable(FanIllust(i))
         IN  dup' = [dup EXCEPT !.pc = "run", !.work = work,
                                !.st = [u \in Twins |-> "check"],
                                !.pos = [u \in Twins |-> 1],
                                !.file = [p \in 1..Len(work) |-> "absent"],
                                !.last = [p \in 1..Len(work) |-> 0]]
    /\ UNCHANGED <<off, blk, fol, job, van, views, sym, gate, poolvars, pag, flt, mat, db, fan>>

\* lines 172-182: the marker check, then the Retry Gate is entered
DupCheck(u) ==
    /\ dup.st[u] = "check"
    /\ IF dup.marker
       THEN dup' = [dup EXCEPT !.st[u] = "skipped"]
       ELSE \E pl \in DupPlans : dup' = [dup EXCEPT !.st[u] = "call", !.plan[u] = pl]
    /\ UNCHANGED <<off, blk, fol, job, van, views, sym, gate, poolvars, pag, flt, mat, db, fan>>

\* what the gate does after a call of aapi.download raised
dup_after_fault(u) ==
    [dup EXCEPT !.plan[u].calls = @ - 1,
                !.st[u] = IF dup.plan[u].calls = 1 THEN "failed" ELSE "call"]

\* aapi.download raises before it has opened the file
DupFault(u) ==
    /\ dup.st[u] = "call"
    /\ ~(dup.plan[u].calls = 1 /\ dup.plan[u].ok)
    /\ dup' = dup_after_fault(u)
    /\ UNCHANGED <<off, blk, fol, job, van, views, sym, gate, poolvars, pag, flt, mat, db, fan>>

\* aapi.download opens the page file for writing
DupOpen(u) ==
    /\ dup.st[u] = "call"
    /\ dup' = [dup EXCEPT !.st[u] = "writing", !.file[dup_page(u)] = "partial",
                          !.last[dup_page(u)] = u]
    /\ UNCHANGED <<off, blk, fol, job, van, views, sym, gate, poolvars, pag, flt, mat, db, fan>>

\* the response stream breaks: aapi.download raises, the file stays as it is
DupAbort(u) ==
    /\ dup.st[u] = "writing"
    /\ ~(dup.plan[u].calls = 1 /\ dup.plan[u].ok)
    /\ dup' = dup_after_fault(u)
    /\ UNCHANGED <<off, blk, fol, job, van, views, sym, gate, poolvars, pag, flt, mat, db, fan>>

\* aapi.download returns: the loop goes to the next page or leaves
DupFinish(u) ==
    /\ dup.st[u] = "writing"
    /\ dup.plan[u].calls = 1 /\ dup.plan[u].ok
    /\ dup' = [dup EXCEPT !.file[dup_page(u)] = file_closed(u, dup_page(u)),
                          !.plan[u] = NoPlan,
                          !.pos[u] = @ + 1,
                          !.st[u] = IF dup.pos[u] = Len(dup.work) THEN "mark"
                                    ELSE "check"]
    /\ UNCHANGED <<off, blk, fol, job, van, views, sym, gate, poolvars, pag, flt, mat, db, fan>>

\* lines 187-189: the marker is written after the loop
DupMark(u) ==
    /\ dup.st[u] = "mark"
    /\ dup' = [dup EXCEPT !.st[u] = "done", !.marker = TRUE]
    /\ UNCHANGED <<off, blk, fol, job, van, views, sym, gate, poolvars, pag, flt, mat, db, fan>>

DupNext ==
    \/ DupEnter
    \/ \E u \in Twins : DupCheck(u)
    \/ \E u \in Twins : DupFault(u)
    \/ \E u \in Twins : DupOpen(u)
    \/ \E u \in Twins : DupAbort(u)
    \/ \E u \in Twins : DupFinish(u)
    \/ \E u \in Twins : DupMark(u)

(***************************************************************************)
(* Symlink Projector: Downloader.do_symlinks.  The file system is the raw  *)
(* directory (per item id: whether raw/<id> is a directory) and one view   *)
(* directory (per item id: what is at <view>/<id>).  Paths are sequences   *)
(* of names; resolve makes a path absolute.                                *)
(***************************************************************************)
SymItems == {1, 2}

RAW_DIR == <<"raw">>

\* Path.resolve() of a path relative to the working directory
resolve(path) == <<"", "mirror">> \o path

NoEntry == [kind |-> "none", target |-> <<>>]
FileEntry == [kind |-> "file", target |-> <<>>]
Link(t) == [kind |-> "link", target |-> t]

\* what can be at <view>/<id> before a call: nothing, a file, a link to a
\* raw directory (valid or dangling as that directory exists) or a link to
\* a directory that is gone
Entries ==
    {NoEntry, FileEntry, Link(<<"", "old", "raw", "9">>)}
    \cup {Link(resolve(RAW_DIR \o <<i>>)) : i \in SymItems}

FileSystems == [raw : [SymItems -> BOOLEAN], view : [SymItems -> Entries]]

\* final_dir.unlink() inside try / except FileNotFoundError
unlink_links_only(view, i) ==
    IF view[i].kind = "link" THEN [view EXCEPT ![i] = NoEntry] ELSE view
unlink(view, i) == [view EXCEPT ![i] = NoEntry]

\* final_dir.symlink_to(target): FileExistsError when the path is taken
symlink_to(view, i, target) ==
    IF view[i].kind = "none"
    THEN [raised |-> FALSE, view |-> [view EXCEPT ![i] = Link(target)]]
    ELSE [raised |-> TRUE, view |-> view]

\* Downloader.do_symlinks(raw_dir, dest_dir, illust_id)
do_symlinks(fs, raw_dir, illust_id) ==
    LET original_dir == raw_dir \o <<illust_id>>
    IN  IF ~fs.raw[illust_id]
        THEN [raised |-> FALSE, fs |-> fs]
        ELSE LET made == symlink_to(unlink(fs.view, illust_id), illust_id,
                                    resolve(original_dir))
             IN  [raised |-> made.raised, fs |-> [fs EXCEPT !.view = made.view]]

SymIdle ==
    [pc |-> "idle", fs |-> [raw |-> [i \in SymItems |-> FALSE],
                            view |-> [i \in SymItems |-> NoEntry]],
     pre |-> [raw |-> [i \in SymItems |-> FALSE],
              view |-> [i \in SymItems |-> NoEntry]],
     id |-> 0, raised |-> FALSE, skipped |-> {}]

\* the mirror as earlier runs and the user left it
SymEnter ==
    /\ sym.pc = "idle"
    /\ \E fs \in FileSystems : sym' = [sym EXCEPT !.pc = "ready", !.fs = fs, !.pre = fs]
    /\ UNCHANGED <<off, blk, fol, job, van, views, gate, poolvars, pag, flt, mat, db, fan, dup>>

\* store_illust_metadata line 273: raw/<id> is created for an accepted item
SymMirror(i) ==
    /\ sym.pc \in {"ready", "called"}
    /\ ~sym.fs.raw[i]
    /\ sym' = [sym EXCEPT !.pc = "ready", !.fs.raw[i] = TRUE, !.pre = sym.fs, !.id = 0]
    /\ UNCHANGED <<off, blk, fol, job, van, views, gate, poolvars, pag, flt, mat, db, fan, dup>>

\* do_symlinks(RAW_DIR, dest_dir, i)
SymCall(i) ==
    /\ sym.pc \in {"ready", "called"}
    /\ LET r == do_symlinks(sym.fs, RAW_DIR, i)
       IN  sym' = [sym EXCEPT !.pc = "called", !.fs = r.fs, !.pre = sym.fs, !.id = i,
                              !.raised = r.raised,
                              !.skipped = IF sym.fs.raw[i] THEN @ ELSE @ \cup {i}]
    /\ UNCHANGED <<off, blk, fol, job, van, views, gate, poolvars, pag, flt, mat, db, fan, dup>>

SymNext ==
    \/ SymEnter
    \/ \E i \in SymItems : SymMirror(i)
    \/ \E i \in SymItems : SymCall(i)

(***************************************************************************)
(* An item vanishing between listing and mirroring: while a job is between *)
(* process_and_save_illusts and the download of a unit, the gallery's      *)
(* deletion action removes the item's rows and its directory raw/<id>.     *)
(***************************************************************************)
VanItems == {1, 2}

VanIdle ==
    [pc |-> "idle", row |-> {}, meta |-> {}, dir |-> {},
     files |-> [i \in VanItems |-> {}], marker |-> {}, blacklist |-> {},
     st |-> [i \in VanItems |-> "none"], pos |-> [i \in VanItems |-> 0],
     deleted |-> {}]

van_unit(i) == make_downloadable(FanIllust(i))

\* process_and_save_illusts on the listing: every item is accepted, gets its
\* directory, meta.json and Item row, and a download unit
VanRecord ==
    /\ van.pc = "idle"
    /\ van' = [van EXCEPT !.pc = "pool", !.row = VanItems, !.meta = VanItems,
                          !.dir = VanItems,
                          !.st = [i \in VanItems |-> "pending"],
                          !.pos = [i \in VanItems |-> 1]]
    /\ UNCHANGED <<off, blk, fol, job, gate, poolvars, pag, flt, mat, db, fan, dup, sym, views>>

\* webserver db_delete_artwork, before the unit of the item runs
VanDelete(i) ==
    /\ van.pc = "pool"
    /\ van.st[i] = "pending"
    /\ i \in van.row
    /\ van' = [van EXCEPT !.row = @ \ {i}, !.blacklist = @ \cup {i},
                          !.dir = @ \ {i}, !.meta = @ \ {i}, !.files[i] = {},
                          !.marker = @ \ {i}, !.deleted = @ \cup {i}]
    /\ UNCHANGED <<off, blk, fol, job, gate, poolvars, pag, flt, mat, db, fan, dup, sym, views>>

\* a worker of the pool calls download_page on the unit
VanTake(i) ==
    /\ van.pc = "pool"
    /\ van.st[i] = "pending"
    /\ van' = [van EXCEPT !.st[i] = "running"]
    /\ UNCHANGED <<off, blk, fol, job, gate, poolvars, pag, flt, mat, db, fan, dup, sym, views>>

\* output_dir.mkdir(parents=True, exist_ok=True)
mkdir(dirs, i) == dirs \cup {i}

\* download_page lines 171-185: one iteration of the loop over the pages
VanPage(i) ==
    /\ van.st[i] = "running"
    /\ van.pos[i] <= Len(van_unit(i))
    /\ IF i \in van.marker
       THEN van' = [van EXCEPT !.st[i] = "skipped", !.dir = mkdir(@, i)]
       ELSE \E ok \in download_returns :
              van' = [van EXCEPT
                        !.dir = mkdir(@, i),
                        !.files[i] = IF ok
                                     THEN @ \cup {van_unit(i)[van.pos[i]].page_num}
                                     ELSE @,
                        !.pos[i] = IF ok THEN @ + 1 ELSE @,
                        !.st[i] = IF ok THEN @ ELSE "failed"]
    /\ UNCHANGED <<off, blk, fol, job, gate, poolvars, pag, flt, mat, db, fan, dup, sym, views>>

\* download_page lines 187-189: the marker is written after the loop
VanMark(i) ==
    /\ van.st[i] = "running"
    /\ van.pos[i] > Len(van_unit(i))
    /\ van' = [van EXCEPT !.st[i] = "done", !.marker = @ \cup {i}]
    /\ UNCHANGED <<off, blk, fol, job, gate, poolvars, pag, flt, mat, db, fan, dup, sym, views>>

\* list(e.map(...)) has seen every result: the job ends, by the exception
\* of a failed unit if there is one
VanEnd ==
    /\ van.pc = "pool"
    /\ \A i \in VanItems : van.st[i] \in {"done", "skipped", "failed"}
    /\ van' = [van EXCEPT !.pc = IF \E i \in VanItems : van.st[i] = "failed"
                                 THEN "raised" ELSE "finished"]
    /\ UNCHANGED <<off, blk, fol, job, gate, poolvars, pag, flt, mat, db, fan, dup, sym, views>>

VanNext ==
    \/ VanRecord
    \/ \E i \in VanItems : VanDelete(i)
    \/ \E i \in VanItems : VanTake(i)
    \/ \E i \in VanItems : VanPage(i)
    \/ \E i \in VanItems : VanMark(i)
    \/ VanEnd

(***************************************************************************)
(* The bookmark job at the level of whole items: download_bookmarks runs   *)
(* process_and_save_illusts on a listing, updates the bookmark table in a  *)
(* session of its own and hands the units to the pool.  A table is the set *)
(* of the keys of its rows.  Item 3 is not visible; items 1 and 2 are by   *)
(* author 1, item 3 is by author 2.                                        *)
(***************************************************************************)
MaxListing == 2
MaxJobs == 2

JobItems == {1, 2, 3}

JobIllust(i) ==
    [id |-> i, user |-> [id |-> IF i = 3 THEN 2 ELSE 1], visible |-> i # 3,
     x_restrict |-> 0, sanity_level |-> 2, total_bookmarks |-> 1,
     tags |-> <<[name |-> "dog", translated_name |-> ""]>>,
     page_count |-> FanIllust(i).page_count, meta_pages |-> FanIllust(i).meta_pages,
     meta_single_page |-> FanIllust(i).meta_single_page]

Listings == UNION { [1..n -> {JobIllust(i) : i \in JobItems}] : n \in 1..MaxListing }

\* whether the database engine behind database_url checks foreign keys
Engines == {"checks_foreign_keys", "ignores_foreign_keys"}

\* download_bookmarks line 560 with no filter_bookmarks setting
BookmarkPolicy == [NoPolicy EXCEPT !.should_filter = FALSE]

NoRows == [artwork |-> {}, author |-> {}, artwork_tag |-> {}, bookmark |-> {}]

JobIdle ==
    [pc |-> "idle", engine |-> "none", jobs |-> 0, committed |-> NoRows, tx |-> NoRows,
     meta |-> {}, dirs |-> {}, to_process |-> <<>>, idx |-> 0, to_dl |-> <<>>,
     dispatched |-> {}]

\* lines 520-523: store_illust_metadata and make_downloadable for an
\* accepted item
record(j, illust) ==
    [j EXCEPT !.dirs = @ \cup {illust.id},
              !.meta = @ \cup {illust.id},
              !.tx.artwork = @ \cup {illust.id},
              !.tx.author = @ \cup {illust.user.id},
              !.tx.artwork_tag = @ \cup {illust.id},
              !.to_dl = Append(@, make_downloadable(illust)),
              !.idx = @ + 1]

\* lines 513-523: one iteration of the loop of process_and_save_illusts
process_item_records_all(j, illust, filtered) == record(j, illust)
process_item(j, illust, filtered) ==
    IF filtered THEN [j EXCEPT !.idx = @ + 1] ELSE record(j, illust)

\* download_bookmarks lines 572-582: the listing arrives and
\* process_and_save_illusts opens its session
JobBegin ==
    /\ job.pc \in {"idle", "finished", "raised"}
    /\ job.jobs < MaxJobs
    /\ \E l \in Listings, e \in Engines :
         /\ job.engine \in {"none", e}
         /\ job' = [job EXCEPT !.pc = "batch", !.engine = e, !.jobs = @ + 1,
                               !.tx = job.committed, !.to_process = l, !.idx = 1,
                               !.to_dl = <<>>, !.dispatched = {}]
    /\ UNCHANGED <<off, blk, fol, gate, poolvars, pag, flt, mat, db, fan, dup, sym, views, van>>

JobItem ==
    /\ job.pc = "batch"
    /\ job.idx <= Len(job.to_process)
    /\ LET illust == job.to_process[job.idx]
       IN  job' = process_item(job, illust,
                               filter_illust(illust, BookmarkPolicy, <<>>).filtered)
    /\ UNCHANGED <<off, blk, fol, gate, poolvars, pag, flt, mat, db, fan, dup, sym, views, van>>

\* an exception inside the with block of process_and_save_illusts (a storage
\* failure): DB.session rolls back and the exception leaves the job
JobRaise ==
    /\ job.pc = "batch"
    /\ job' = [job EXCEPT !.pc = "raised", !.tx = job.committed, !.to_dl = <<>>]
    /\ UNCHANGED <<off, blk, fol, gate, poolvars, pag, flt, mat, db, fan, dup, sym, views, van>>

\* the with block is left normally: commit, to_dl is returned
JobCommit ==
    /\ job.pc = "batch"
    /\ job.idx > Len(job.to_process)
    /\ job' = [job EXCEPT !.pc = "bookmarks", !.committed = job.tx]
    /\ UNCHANGED <<off, blk, fol, gate, poolvars, pag, flt, mat, db, fan, dup, sym, views, van>>

\* lines 584-596: a Bookmark row for every illust of to_process, in a session
\* of its own; an engine that checks foreign keys refuses a row whose
\* artwork_id has no Item row, and the exception leaves the job
JobBookmarks ==
    /\ job.pc = "bookmarks"
    /\ LET listed == {job.to_process[k].id : k \in 1..Len(job.to_process)}
       IN  IF job.engine = "checks_foreign_keys" /\ ~(listed \subseteq job.committed.artwork)
           THEN job' = [job EXCEPT !.pc = "raised", !.to_dl = <<>>]
           ELSE job' = [job EXCEPT !.pc = "pool",
                                   !.committed.bookmark = @ \cup listed,
                                   !.tx.bookmark = @ \cup listed]
    /\ UNCHANGED <<off, blk, fol, gate, poolvars, pag, flt, mat, db, fan, dup, sym, views, van>>

\* lines 601-603: the units are handed to the pool
JobDispatch ==
    /\ job.pc = "pool"
    /\ job' = [job EXCEPT !.pc = "finished",
                          !.dispatched = {job.to_dl[k][1].id : k \in 1..Len(job.to_dl)}]
    /\ UNCHANGED <<off, blk, fol, gate, poolvars, pag, flt, mat, db, fan, dup, sym, views, van>>

JobNext == JobBegin \/ JobItem \/ JobRaise \/ JobCommit \/ JobBookmarks \/ JobDispatch

(***************************************************************************)
(* Downloader.download_following: the feed of followed authors is listed   *)
(* by offset, a batch per iteration; every batch is handed to              *)
(* save_profile_pics, process_and_save_illusts and the pool.  The feed is  *)
(* the items 1..feed, newest first, and does not change during the job.    *)
(***************************************************************************)
MaxLimit == 61
MaxFeed == 62

\* the step of range(0, max_items, 30), the max_items=30 given to
\* depaginate_download, and the page size of the service
FollowStep == 30
FollowCap == 30
FeedPage == 30

\* aapi.illust_follow(offset=x): the page after the first x items and the
\* offset of the next page
illust_follow(feed, offset) ==
    [illusts |-> [k \in 1..(IF feed - offset > FeedPage THEN FeedPage
                            ELSE IF feed > offset THEN feed - offset ELSE 0) |-> offset + k],
     next_url |-> IF feed - offset > FeedPage THEN offset + FeedPage ELSE -1]

\* depaginate_download lines 372-400 with param_names=("offset",): pages are
\* appended until the tally reaches max_items or there is no next page
RECURSIVE depaginate_offset(_, _, _, _, _)
depaginate_offset(feed, offset, max_items, to_process, rounds) ==
    IF rounds = 0 THEN to_process
    ELSE LET response == illust_follow(feed, offset)
             tally == to_process \o response.illusts
         IN  IF Len(tally) >= max_items THEN tally
             ELSE IF response.next_url # -1
                  THEN depaginate_offset(feed, response.next_url, max_items, tally, rounds - 1)
                  ELSE tally

FollowIdle == [pc |-> "idle", max_items |-> 0, feed |-> 0, x |-> 0, handed |-> <<>>]

\* main lines 1140-1141: following -l max_items
FollowEnter ==
    /\ fol.pc = "idle"
    /\ \E m \in 1..MaxLimit, n \in 0..MaxFeed :
         fol' = [FollowIdle EXCEPT !.pc = "loop", !.max_items = m, !.feed = n]
    /\ UNCHANGED <<off, blk, gate, poolvars, pag, flt, mat, db, fan, dup, sym, views, van, job>>

\* lines 689-708: one iteration of the loop over range(0, max_items, 30)
FollowBatch ==
    /\ fol.pc = "loop"
    /\ fol.x < fol.max_items
    /\ LET to_process == depaginate_offset(fol.feed, fol.x, FollowCap, <<>>, Ceiling)
       IN  IF Len(to_process) = 0
           THEN fol' = [fol EXCEPT !.pc = "returned"]
           ELSE fol' = [fol EXCEPT !.handed = @ \o to_process, !.x = @ + FollowStep]
    /\ UNCHANGED <<off, blk, gate, poolvars, pag, flt, mat, db, fan, dup, sym, views, van, job>>

\* the range is exhausted
FollowEnd ==
    /\ fol.pc = "loop"
    /\ fol.x >= fol.max_items
    /\ fol' = [fol EXCEPT !.pc = "finished"]
    /\ UNCHANGED <<off, blk, gate, poolvars, pag, flt, mat, db, fan, dup, sym, views, van, job>>

FollowNext == FollowEnter \/ FollowBatch \/ FollowEnd

(***************************************************************************)
(* The blacklist subcommand: Downloader.blacklist.  An argument that was   *)
(* not given (None) is 0 for an id and "" for a tag.                       *)
(***************************************************************************)
MaxCalls == 3

\* the argument triples of main lines 1000-1011
BlacklistCalls == { Row(u, a, t) : u \in {0, 1}, a \in {0, 9}, t \in {"", "cat"} }

\* any((user_id, artwork_id, tag))
any(user_id, artwork_id, tag) == user_id # 0 \/ artwork_id # 0 \/ tag # ""

\* Downloader.blacklist lines 812-822: the message when no argument was
\* given, then the row with the arguments as given
blacklist(rows, user_id, artwork_id, tag) ==
    [error |-> ~any(user_id, artwork_id, tag),
     rows |-> Append(rows, Row(user_id, artwork_id, tag))]

BlacklistIdle ==
    [pc |-> "idle", rows |-> <<>>, before |-> <<>>, last |-> Row(0, 0, ""),
     error |-> FALSE, calls |-> 0]

\* main lines 1145-1146
BlacklistCall ==
    /\ blk.calls < MaxCalls
    /\ \E a \in BlacklistCalls :
         LET r == blacklist(blk.rows, a.author_id, a.artwork_id, a.tag)
         IN  blk' = [pc |-> "called", rows |-> r.rows, before |-> blk.rows, last |-> a,
                     error |-> r.error, calls |-> blk.calls + 1]
    /\ UNCHANGED <<off, gate, poolvars, pag, flt, mat, db, fan, dup, sym, views, van, job, fol>>

BlacklistNext == BlacklistCall

(***************************************************************************)
(* The offline filter tool (filter.py) with its user rules.                *)
(***************************************************************************)
MaxUserArgs == 2

OffUsers == {1, 2}
PostedBy == {1, 2, 3}
UserArgs == UNION { [1..n -> OffUsers] : n \in 0..MaxUserArgs }

\* UserFilterer.__init__
UserFilterer(user_id, invert) == [user_id |-> user_id, invert |-> invert]

\* UserFilterer.filter
user_filter(rule, value) ==
    IF rule.invert THEN value.id = rule.user_id ELSE value.id # rule.user_id

\* UserFilterer.get_message
user_message(rule, value) ==
    IF rule.invert
    THEN [kind |-> "Not posted by, but by", nums |-> <<rule.user_id, value.id>>]
    ELSE [kind |-> "Posted by", nums |-> <<rule.user_id>>]

NoReport == [kind |-> "none", nums |-> <<>>]

\* main lines 305-310: the rules in the order they are added
user_rules(require_user, exclude_user) ==
    [k \in 1..Len(require_user) |-> UserFilterer(require_user[k], FALSE)]
        \o [k \in 1..Len(exclude_user) |-> UserFilterer(exclude_user[k], TRUE)]

\* Filterer.check_valid
RECURSIVE check_valid(_, _)
check_valid(rules, obb) ==
    IF rules = <<>> THEN [valid |-> TRUE, msg |-> NoReport]
    ELSE LET rule == Head(rules)
             data == obb.user
         IN  IF ~user_filter(rule, data)
             THEN [valid |-> FALSE, msg |-> user_message(rule, data)]
             ELSE check_valid(Tail(rules), obb)

OffIdle ==
    [pc |-> "idle", require_user |-> <<>>, exclude_user |-> <<>>, filter_rules |-> <<>>,
     obb |-> [user |-> [id |-> 0]], valid |-> TRUE, msg |-> NoReport]

\* main lines 284-310: the arguments are parsed and the rules are added
OffParse ==
    /\ off.pc = "idle"
    /\ \E r \in UserArgs, x \in UserArgs :
         off' = [off EXCEPT !.pc = "rules", !.require_user = r, !.exclude_user = x,
                            !.filter_rules = user_rules(r, x)]
    /\ UNCHANGED <<gate, poolvars, pag, flt, mat, db, fan, dup, sym, views, van, job, fol, blk>>

\* Filterer.filter_illusts: check_valid on the next meta.json
OffCheck ==
    /\ off.pc \in {"rules", "checked"}
    /\ \E u \in PostedBy :
         LET obb == [user |-> [id |-> u]]
             r == check_valid(off.filter_rules, obb)
         IN  off' = [off EXCEPT !.pc = "checked", !.obb = obb, !.valid = r.valid,
                                !.msg = r.msg]
    /\ UNCHANGED <<gate, poolvars, pag, flt, mat, db, fan, dup, sym, views, van, job, fol, blk>>

OffNext == OffParse \/ OffCheck

Init ==
    /\ gate = GateIdle
    /\ clock = 1
    /\ run = 1
    /\ stage = 1
    /\ jobpc = "list"
    /\ to_dl = <<>>
    /\ upc = <<>>
    /\ upage = <<>>
    /\ ureqs = <<>>
    /\ ugot = <<>>
    /\ uerr = <<>>
    /\ umark0 = <<>>
    /\ resIdx = 0
    /\ meta = [i \in Items |-> NoFile]
    /\ files = [i \in Items |-> {}]
    /\ marker = [i \in Items |-> NoFile]
    /\ markerPass = [i \in Items |-> {}]
    /\ snap = [meta |-> [i \in Items |-> NoFile], files |-> [i \in Items |-> {}],
               marker |-> [i \in Items |-> NoFile]]
    /\ prevOk = FALSE
    /\ runReqs = [i \in Items |-> 0]
    /\ pag = PagIdle
    /\ flt = FilterIdle
    /\ mat = MatIdle
    /\ db = StoreIdle
    /\ fan = FanIdle
    /\ dup = DupIdle
    /\ sym = SymIdle
    /\ van = VanIdle
    /\ job = JobIdle
    /\ fol = FollowIdle
    /\ blk = BlacklistIdle
    /\ off = OffIdle
    /\ views = [r \in {"private", "public"} |-> [exists |-> FALSE, links |-> {}]]

PoolNext ==
    \/ JobList
    \/ \E u \in Units : WorkerTake(u)
    \/ \E u \in Units : dp_check(u)
    \/ \E u \in Units : dp_fetch(u)
    \/ \E u \in Units : dp_mark(u)
    \/ Collect
    \/ PoolExit
    \/ Unwind
    \/ StartRun

Next ==
    GateNext \/ PoolNext \/ PagNext \/ FilterNext \/ MatNext \/ StoreNext \/ FanNext
    \/ DupNext \/ SymNext \/ VanNext \/ JobNext \/ FollowNext \/ BlacklistNext \/ OffNext

GateSpec == Init /\ [][GateNext]_vars
PoolSpec == Init /\ [][PoolNext]_vars
PoolLive == Init /\ [][PoolNext]_vars /\ WF_vars(PoolNext)
PagSpec == Init /\ [][PagNext]_vars
PagLive == Init /\ [][PagNext]_vars /\ WF_vars(PagNext)
FilterSpec == Init /\ [][FilterNext]_vars
MatSpec == Init /\ [][MatNext]_vars
StoreSpec == Init /\ [][StoreNext]_vars
FanSpec == Init /\ [][FanNext]_vars
DupSpec == Init /\ [][DupNext]_vars
SymSpec == Init /\ [][SymNext]_vars
VanSpec == Init /\ [][VanNext]_vars
JobSpec == Init /\ [][JobNext]_vars
FollowSpec == Init /\ [][FollowNext]_vars
BlacklistSpec == Init /\ [][BlacklistNext]_vars
OffSpec == Init /\ [][OffNext]_vars
Spec == Init /\ [][Next]_vars

(***************************************************************************)
(* Properties of the Retry Gate (checked under GateSpec).                  *)
(***************************************************************************)
GateEnded == gate.pc \in {"returned", "raised"}
CallsIn(log) == {k \in 1..Len(log) : log[k].ev = "call"}
AbortedFaults == {Raise("PixivError", AbortedMsg), Raise("PixivError", ResetMsg)}
Exhaustion(cbl) == Err("Exception", <<"Failed", "to", "run", cbl, "3", "times">>)

C8_ReauthIsFollowedByRetry ==
    GateEnded =>
        \A k \in 1..Len(gate.log) :
            gate.log[k] = Auth("ok") =>
                k < Len(gate.log) /\ gate.log[k + 1].ev = "call"

\* C9: a structured error whose message does not name invalid_grant ends the
\* gate at once: it is the last event of the log (no further invocation, no
\* re-authentication) and the gate has raised the fatal "Unknown error",
\* whatever is left of the attempt budget.
C9_UnknownErrorFailsFast ==
    \A k \in 1..Len(gate.log) :
        gate.log[k] = Call(RetErr(RateMsg)) =>
            /\ k = Len(gate.log)
            /\ gate.pc = "raised"
            /\ gate.err = Err("Exception", <<"Unknown", "error">>)

C9_Witness ==
    /\ gate.pc = "raised"
    /\ gate.err = Err("Exception", <<"Unknown", "error">>)
    /\ gate.x = 0
    /\ gate.calls = 1

\* after the fault at position k of the log the gate went on (it is still in
\* the loop or a later event follows), or the budget is used up
RetriedOrExhausted(k) ==
    \/ k < Len(gate.log)
    \/ gate.pc = "loop"
    \/ gate.pc = "raised" /\ gate.err = Exhaustion(gate.cbl)

\* C10 as stated: every transient network fault (connection aborted,
\* connection reset, timeout) is retried, and the caller sees at most the
\* exhaustion of the budget.
C10_EveryTransientFaultRetried ==
    \A k \in 1..Len(gate.log) :
        (gate.log[k].ev = "call" /\ gate.log[k].out \in TransientFaults)
            => RetriedOrExhausted(k)

\* C10 amended: a PixivError whose message contains "connection aborted" in
\* any letter case (which includes a connection reset reported as
\* 'Connection aborted.') is retried and reaches the caller at most as the
\* exhaustion of the budget; any other PixivError (a read timeout) is
\* re-raised to the caller at once, without another invocation.
C10_AbortedFaultsRetried ==
    /\ \A k \in 1..Len(gate.log) :
         /\ (gate.log[k].ev = "call" /\ gate.log[k].out \in AbortedFaults)
               => RetriedOrExhausted(k)
         /\ gate.log[k] = Call(Raise("PixivError", TimeoutMsg))
               => /\ k = Len(gate.log)
                  /\ gate.pc = "raised"
                  /\ gate.err = Err("PixivError", TimeoutMsg)
    /\ gate.pc = "raised" => gate.err.msg \notin {AbortedMsg, ResetMsg}

C10_Witness ==
    /\ gate.pc = "returned"
    /\ gate.log = <<Call(Raise("PixivError", ResetMsg)),
                    Call(Raise("PixivError", AbortedMsg)), Call(RetTrue)>>

\* C11: a failed re-authentication ends the gate at once: it is the last event
\* of the log (the callable is not invoked again), the gate has raised the
\* error of aapi.auth(), and the loop counter is still that of the attempt
\* during which the re-authentication was made.
C11_ReauthFailurePropagates ==
    \A k \in 1..Len(gate.log) :
        gate.log[k] = Auth("fail") =>
            /\ k = Len(gate.log)
            /\ gate.pc = "raised"
            /\ gate.err = Err("PixivError", <<"auth">>)
            /\ gate.x = gate.calls - 1

C11_Witness ==
    /\ gate.pc = "raised"
    /\ gate.err = Err("PixivError", <<"auth">>)
    /\ gate.calls = 1
    /\ gate.log = <<Call(RetErr(GrantMsg)), Auth("fail")>>

(***************************************************************************)
(* Properties of download_page and of the job (checked under PoolSpec).    *)
(***************************************************************************)
AllPages(i) == 1..Illust(i).page_count
UpTo(n) == [p \in 1..n |-> p]
Requested(u) == {ureqs[u][k] : k \in 1..Len(ureqs[u])}

\* C1: whenever an item's marker.json exists, the pass of download_page that
\* wrote it had fetched every page of the item successfully (and the page
\* files are all on disk).
C1_MarkerAllOrNone ==
    \A i \in Items :
        marker[i].exists => markerPass[i] = AllPages(i) /\ files[i] = AllPages(i)

C1_Witness ==
    \E i \in Items :
        marker[i].exists /\ Illust(i).page_count = 3 /\ markerPass[i] = {1, 2, 3}

\* C2: if the fetch of page k failed in a pass, k is the last page that pass
\* requested, the pass left download_page by the exception, it wrote no
\* marker (the item has none) and the files of pages 1..k-1 are on disk.
C2_FailedPageAbortsUnit ==
    \A u \in Units :
        \A k \in Requested(u) \ ugot[u] :
            /\ ureqs[u] = UpTo(k)
            /\ ugot[u] = 1..(k - 1)
            /\ upc[u] = "failed"
            /\ uerr[u] # NoErr
            /\ ~marker[item_of(u)].exists
            /\ 1..(k - 1) \subseteq files[item_of(u)]

C2_Witness ==
    \E u \in Units :
        /\ Len(to_dl[u]) = 3
        /\ upc[u] = "failed"
        /\ ureqs[u] = <<1, 2>>
        /\ files[item_of(u)] = {1}
        /\ ~marker[item_of(u)].exists
        /\ jobpc = "aborted"

\* C3: a pass of download_page that found the marker present when it was
\* entered requests no page and leaves the marker as it was.
C3_MarkerShortCircuit ==
    \A u \in Units :
        umark0[u].exists =>
            /\ upc[u] \in {"check", "skipped"}
            /\ ureqs[u] = <<>>
            /\ ugot[u] = {}
            /\ marker[item_of(u)] = umark0[u]

C3_Witness ==
    \E u \in Units :
        /\ upc[u] = "skipped"
        /\ umark0[u].exists
        /\ umark0[u].downloaded < clock
        /\ Len(to_dl[u]) = 3

\* C4 as stated: in a run that follows a run in which every unit completed,
\* no page is fetched and the mirror (meta.json, page files, marker.json of
\* every item) is identical to what the earlier run left.
C4_SecondRunIdentical ==
    (run >= 2 /\ prevOk) =>
        /\ \A i \in Items : runReqs[i] = 0
        /\ files = snap.files
        /\ marker = snap.marker
        /\ meta = snap.meta

\* C4 amended: in such a run no page is fetched and the page files and the
\* marker of every item stay identical; meta.json is written again for every
\* item the run lists and differs from the earlier file in its download-date
\* stamp only.
C4_SecondRunRefetchesNothing ==
    (run >= 2 /\ prevOk) =>
        /\ \A i \in Items : runReqs[i] = 0
        /\ files = snap.files
        /\ marker = snap.marker
        /\ \A i \in Items :
             /\ snap.meta[i].exists /\ meta[i].exists
             /\ [meta[i] EXCEPT !.download_date = snap.meta[i].download_date] = snap.meta[i]
             /\ meta[i].download_date \in {snap.meta[i].download_date, clock}
        /\ \A u \in Units : meta[item_of(u)].download_date = clock

C4_Witness ==
    /\ run = 2
    /\ prevOk
    /\ jobpc = "finished"
    /\ \A i \in Items : meta[i].download_date > snap.meta[i].download_date

\* C5 as stated: a failed unit does not stop the job: the job never ends by
\* the unit's exception and no unit of the pool is left unrun.
C5_JobContinuesAfterFailure ==
    /\ jobpc \notin {"unwind", "aborted"}
    /\ \A u \in Units : upc[u] # "cancelled"

\* C5 amended: when the fetch of a unit fails, the units already started
\* still run to completion or to their own first failure, but the failure is
\* re-raised to the job: the units not yet started are cancelled without
\* requesting anything, and the job ends in that stage, so no later stage
\* runs.
C5_FailureAbortsJob ==
    /\ (\E u \in Units : upc[u] = "failed") => jobpc \in {"pool", "unwind", "aborted"}
    /\ jobpc = "aborted" =>
         /\ \A u \in Units : upc[u] \in Finished
         /\ \E u \in Units : upc[u] = "failed"
    /\ \A u \in Units :
         upc[u] = "cancelled" =>
            /\ ureqs[u] = <<>>
            /\ jobpc \in {"unwind", "aborted"}
            /\ \E v \in Units : v < u /\ upc[v] = "failed"

C5_Witness ==
    /\ jobpc = "aborted"
    /\ stage = 1
    /\ upc = <<"failed", "cancelled">>

\* C6: a pass of download_page entered while the item has no marker requests
\* the pages from page 1 on, whatever files an earlier run left, and ends
\* either by a failed fetch or, when every fetch succeeded, with all pages
\* requested in order and the marker written.
UnitIds == 1..NumItems
EnteredUnmarked(u) ==
    /\ u \in DOMAIN upc
    /\ upc[u] = "check"
    /\ ureqs[u] = <<>>
    /\ ~marker[item_of(u)].exists
EndedWholesale(u) ==
    /\ u \in DOMAIN upc
    /\ \/ upc[u] = "failed" /\ ureqs[u] = UpTo(upage[u])
       \/ /\ upc[u] = "done"
          /\ ureqs[u] = UpTo(Len(to_dl[u]))
          /\ marker[item_of(u)].exists
PagStarted == pag.pc # "idle"
PagEnded == pag.pc \in {"returned", "handed", "raised"}
PagPlain ==
    /\ PagStarted
    /\ ~pag.args.listing.endless
    /\ ~pag.args.max_items.set
    /\ ~pag.args.faulty

\* the keyword arguments that ask the endpoint for page c
ContinuationOf(names, c) == [j \in 1..Len(names) |-> <<names[j], cursor_value(names[j], c)>>]

\* the keyword arguments of the first call
InitialKwargs(a) ==
    [j \in 1..Min(Len(a.param_names), Len(a.initial_params)) |->
        <<a.param_names[j], a.initial_params[j]>>]

\* C12: for a listing of K pages holding T items, walked without cap and
\* without faults, the n-th listing call carries the initial parameters
\* (n = 1) or the continuation values the response to call n-1 gave for each
\* declared parameter name, and the run ends after exactly K calls with
\* exactly the items 1..T in listing order.
C12_ExhaustiveInOrder ==
    PagPlain =>
        /\ pag.pc = "wait" =>
              /\ pag.calls = pag.fetches
              /\ pag.fetches < Len(pag.args.listing.sizes)
              /\ pag.kwargs = IF pag.fetches = 0 THEN InitialKwargs(pag.args)
                              ELSE ContinuationOf(pag.args.param_names, pag.fetches + 1)
        /\ PagEnded =>
              /\ pag.pc # "raised"
              /\ pag.calls = Len(pag.args.listing.sizes)
              /\ pag.result =
                    Result([i \in 1..SumTo(pag.args.listing.sizes,
                                           Len(pag.args.listing.sizes)) |-> i])

C12_Witness ==
    /\ PagPlain
    /\ pag.pc = "returned"
    /\ pag.args.listing.sizes = <<2, 0, 1>>
    /\ Len(pag.args.param_names) = 3
    /\ pag.calls = 3
    /\ pag.result.items = <<1, 2, 3>>

\* C13: with a cap max_items = M, no listing call is in flight while the
\* accumulated item count already meets or exceeds M, and a walk that goes
\* on past a response has accumulated fewer than M items.
C13_NoFetchOnceCapMet ==
    (PagStarted /\ pag.args.max_items.set) =>
        (pag.pc \in {"wait", "sleep"} => Len(pag.to_process) < pag.args.max_items.n)

\* why a walk that returned a list has stopped
EndOfStream == ~pag.args.listing.endless /\ pag.fetches = Len(pag.args.listing.sizes)
CapMet == pag.args.max_items.set /\ Len(pag.result.items) >= pag.args.max_items.n
CeilingHit == pag.fetches = Ceiling

PagStopsForAReason ==
    /\ pag.fetches <= Ceiling
    /\ pag.pc \in {"returned", "handed"} =>
          /\ pag.result = Result(pag.to_process)
          /\ EndOfStream \/ CapMet \/ CeilingHit

\* C14: every depaginate_download call ends; one that returns has stopped at
\* the end-of-stream signal, at the cap or after 9999 successful listing
\* calls, never more, and in each case it returns the items accumulated so
\* far, also when the remote answers with empty batches and a continuation
\* forever.
C14_AlwaysTerminates ==
    /\ [] PagStopsForAReason
    /\ PagStarted ~> PagEnded

C14_Witness ==
    /\ pag.pc = "returned"
    /\ pag.args.listing.endless
    /\ ~pag.args.max_items.set
    /\ pag.fetches = Ceiling
    /\ pag.result = Result(<<1>>)

\* C15: page fetches of one walk are strictly sequential: at most one listing
\* call is in flight, a call is issued only when every earlier call has been
\* answered and the inter-request delay has elapsed after each earlier
\* response, and no delay follows the response to the last call.
C15_SequentialWithDelayBetween ==
    PagStarted =>
        /\ pag.inflight <= 1
        /\ pag.pc = "wait" => (pag.inflight = 1 /\ pag.sleeps = pag.fetches)
        /\ pag.pc # "wait" => pag.inflight = 0
        /\ pag.pc \in {"returned", "handed"} => pag.sleeps = pag.fetches - 1

\* C16: once a gate run of a page fetch has raised (the attempts are used up,
\* or the failure is fatal), the depaginate_download call has failed with
\* that exception: it returns no list, and the items of the earlier pages
\* are not handed to the filter, the recorder or the download pool.
C16_FailedWalkHandsNothing ==
    /\ pag.err # NoErr =>
          /\ pag.pc = "raised"
          /\ pag.result = NoResult
          /\ pag.handed = NoResult
    /\ pag.handed.set => (pag.err = NoErr /\ pag.handed = Result(pag.to_process))

C16_Witness ==
    /\ pag.pc = "raised"
    /\ pag.err = Exhaustion("listing")
    /\ pag.fetches = 2
    /\ Len(pag.to_process) >= 1
    /\ pag.handed = NoResult

(***************************************************************************)
(* Properties of filter_illust.                                            *)
(***************************************************************************)
Filtered == flt.pc = "done"

\* the item's tag names and translated names, as the remote sent them
RawTags(illust) ==
    UNION { {illust.tags[k].name, illust.tags[k].translated_name} \ {""} :
            k \in 1..Len(illust.tags) }

SameIgnoringCase(a, b) == lower(a) = lower(b)

HasTagOf(illust, names) ==
    \E t \in RawTags(illust), n \in names : n # "" /\ SameIgnoringCase(t, n)

\* the rules of the reference chain, in priority order, each with its kind
RuleViolated(kind) ==
    LET i == flt.illust
        c == flt.cmd
        on == flt.policy.should_filter
    IN  CASE kind = "not_visible" -> ~i.visible
          [] kind = "r18" -> on /\ i.x_restrict # 0 /\ ~c.allow_r18
          [] kind = "lewd_below" ->
                 on /\ c.lewd_limits[1].set /\ i.sanity_level < c.lewd_limits[1].n
          [] kind = "lewd_above" ->
                 on /\ c.lewd_limits[2].set /\ i.sanity_level > c.lewd_limits[2].n
          [] kind = "filtered_tags" -> on /\ HasTagOf(i, c.filter_tag)
          [] kind = "required_tags" ->
                 on /\ c.require_tag # {} /\ ~HasTagOf(i, c.require_tag)
          [] kind = "bookmarks_above" ->
                 on /\ c.bookmark_limits[2].set
                    /\ i.total_bookmarks > c.bookmark_limits[2].n
          [] kind = "bookmarks_below" ->
                 on /\ c.bookmark_limits[1].set
                    /\ i.total_bookmarks < c.bookmark_limits[1].n
          [] kind = "pages_above" ->
                 on /\ c.max_pages.set /\ i.page_count > c.max_pages.n
          [] kind = "blacklisted" ->
                 on /\ \E k \in 1..Len(flt.rows) :
                          \/ flt.rows[k].author_id = i.user.id
                          \/ flt.rows[k].artwork_id = i.id
                          \/ HasTagOf(i, {flt.rows[k].tag})
          [] OTHER -> FALSE

RuleOrder ==
    <<"not_visible", "r18", "lewd_below", "lewd_above", "filtered_tags",
      "required_tags", "bookmarks_above", "bookmarks_below", "pages_above",
      "blacklisted">>

\* the kind of the first violated rule, "none" when no rule is violated
FirstViolated ==
    IF \E k \in 1..Len(RuleOrder) : RuleViolated(RuleOrder[k])
    THEN RuleOrder[CHOOSE k \in 1..Len(RuleOrder) :
                      /\ RuleViolated(RuleOrder[k])
                      /\ \A j \in 1..(k - 1) : ~RuleViolated(RuleOrder[j])]
    ELSE "none"

\* C17: filter_illust equals the reference ordered chain: it rejects with
\* the reason of the first violated rule in the order not-visible, R-18,
\* maturity below min, maturity above max, forbidden tag, no required tag,
\* bookmarks above max, bookmarks below min, page count above max,
\* blacklist match, and it accepts exactly when no rule is violated.
C17_EqualsReferenceChain ==
    Filtered =>
        /\ flt.out.msg.kind = FirstViolated
        /\ flt.out.filtered <=> FirstViolated # "none"

\* C18: with the filtering flag off, an item is rejected exactly when it is
\* not visible, whatever rules 2 to 10 say; and a non-visible item is
\* rejected with the reason "not visible" whether the flag is on or off.
C18_FlagOffOnlyVisibility ==
    Filtered =>
        /\ ~flt.illust.visible =>
              (flt.out.filtered /\ flt.out.msg.kind = "not_visible")
        /\ (~flt.policy.should_filter /\ flt.illust.visible) =>
              (~flt.out.filtered /\ flt.out.msg = NoMsg)

C18_Witness ==
    /\ Filtered
    /\ flt.cmd.job = "bookmarks"
    /\ ~flt.cmd.filter_bookmarks
    /\ flt.illust.visible
    /\ RuleViolated("not_visible") = FALSE
    /\ flt.illust.x_restrict # 0 /\ ~flt.cmd.allow_r18
    /\ flt.rows = <<Row(1, 0, "")>>
    /\ ~flt.out.filtered

\* C19: when a maximum page count is set and no rule of higher priority
\* fires, the item is rejected for its pages exactly when its page_count
\* (1 for a single-page item) is above the maximum.
C19_PageBoundUsesPageCount ==
    (/\ Filtered
     /\ flt.policy.should_filter
     /\ flt.cmd.max_pages.set
     /\ \A k \in 1..8 : ~RuleViolated(RuleOrder[k])) =>
        (flt.out.msg.kind = "pages_above"
            <=> flt.illust.page_count > flt.cmd.max_pages.n)

\* C20: tag matching ignores letter case for forbidden, required and
\* blacklisted tags alike: an item carrying a tag that differs from a
\* forbidden or blacklisted tag only in case is rejected, and an item
\* carrying a tag that differs from a required tag only in case is not
\* rejected for missing the required tags.
C20_TagMatchIgnoresCase ==
    (Filtered /\ flt.policy.should_filter /\ flt.illust.visible) =>
        /\ HasTagOf(flt.illust, flt.cmd.filter_tag) => flt.out.filtered
        /\ HasTagOf(flt.illust, flt.cmd.require_tag) =>
              flt.out.msg.kind # "required_tags"
        /\ HasTagOf(flt.illust, {flt.rows[k].tag : k \in 1..Len(flt.rows)}) =>
              flt.out.filtered

(***************************************************************************)
(* Properties of make_downloadable.                                        *)
(***************************************************************************)
Materialized == mat.pc = "done"

MatDescriptorsRight ==
    Materialized =>
        /\ mat.illust.page_count = 1 =>
              /\ Len(mat.obs) = 1
              /\ mat.obs[1].id = mat.illust.id
              /\ mat.obs[1].page_num = 1
              /\ mat.obs[1].url = mat.illust.meta_single_page
        /\ mat.illust.page_count # 1 =>
              /\ Len(mat.obs) = Len(mat.illust.meta_pages)
              /\ \A n \in 1..Len(mat.illust.meta_pages) :
                    /\ mat.obs[n].id = mat.illust.id
                    /\ mat.obs[n].page_num = n
                    /\ mat.obs[n].url = mat.illust.meta_pages[n]

\* C22: for a payload with page count 1 make_downloadable returns exactly one
\* descriptor with page_num 1 and the single direct URL; otherwise exactly
\* one descriptor per entry of the page-URL list, page_num 1..N in list
\* order with that entry's URL; the call starts no gate run and leaves the
\* mirror untouched.
C22_OneDescriptorPerPage ==
    /\ [] MatDescriptorsRight
    /\ [][mat' # mat => UNCHANGED <<off, blk, fol, job, van, views, sym, dup, fan, db, gate, pag, meta, files, marker>>]_vars

C22_Witness ==
    /\ Materialized
    /\ mat.illust.page_count = 3
    /\ mat.illust.meta_pages = <<<<1, 2>>, <<1, 1>>, <<1, 3>>>>
    /\ mat.obs[3].page_num = 3
    /\ mat.obs[1].url = <<1, 2>>

(***************************************************************************)
(* Properties of the Metadata Recorder.                                    *)
(***************************************************************************)
\* the payload a committed artwork row was last written from: its bookmark
\* count is that payload's total_bookmarks
LastPayload(a) == Payload(a.id, a.bookmarks)

TagNames(illust) == {illust.tags[k].name : k \in 1..Len(illust.tags)}

\* C23: in every committed state of the store, also after a crash or a
\* raised error at any point of a batch, each Item row has its Author row
\* and a Tag row for every tag name of the payload it was written from.
C23_ItemCommittedWhole ==
    \A a \in db.committed.artwork :
        /\ \E r \in db.committed.author : r.id = a.author_id
        /\ \A n \in TagNames(LastPayload(a)) :
              \E r \in db.committed.artwork_tag : r.artwork_id = a.id /\ r.name = n

C23_Witness ==
    /\ db.pc = "crashed"
    /\ db.sessions = 2
    /\ db.idx = 2
    /\ Len(db.batch) = 2
    /\ db.batch[1].id = 2
    /\ db.committed.artwork # {}
    /\ \A a \in db.committed.artwork : a.id = 1

\* an item's recording is complete: its statements have all been executed
Recorded == db.pc = "flush" /\ db.pending = <<>>

CreationFields(a) ==
    <<a.title, a.caption, a.uploaded_at, a.page_count, a.single_page, a.lewd_level,
      a.r18, a.r18g>>

CreationFieldsOf(illust) ==
    <<illust.title, illust.caption, illust.create_date, illust.page_count,
      illust.page_count = 1, illust.sanity_level, illust.x_restrict # 0,
      illust.restrict # 0>>

\* C24: recording an item whose Item row exists leaves the row's
\* creation-time fields and the Author's account handle as they were and
\* sets bookmark count, view count, bookmarked flag and author display name
\* to the payload's values; recording an unseen item or author creates the
\* row from the payload.
C24_CreationFieldsKept ==
    Recorded =>
        LET illust == db.batch[db.idx]
            olds == {r \in db.pre.artwork : r.id = illust.id}
            news == {r \in db.tx.artwork : r.id = illust.id}
            oldauthors == {r \in db.pre.author : r.id = illust.user.id}
            newauthors == {r \in db.tx.author : r.id = illust.user.id}
        IN  /\ Cardinality(news) = 1
            /\ Cardinality(newauthors) = 1
            /\ \A new \in news :
                  /\ new.bookmarks = illust.total_bookmarks
                  /\ new.views = illust.total_views
                  /\ new.is_bookmarked = illust.is_bookmarked
                  /\ \A old \in olds : CreationFields(new) = CreationFields(old)
                  /\ olds = {} => CreationFields(new) = CreationFieldsOf(illust)
            /\ \A new \in newauthors :
                  /\ new.name = illust.user.name
                  /\ \A old \in oldauthors : new.account_name = old.account_name
                  /\ oldauthors = {} => new.account_name = illust.user.account

C24_Witness ==
    /\ Recorded
    /\ db.sessions = 2
    /\ db.batch[db.idx] = Payload(1, 2)
    /\ \E old \in db.committed.artwork : old.id = 1 /\ old.title = <<"title", 1, 1>>
    /\ \E new \in db.tx.artwork :
          new.id = 1 /\ new.title = <<"title", 1, 1>> /\ new.bookmarks = 2
    /\ \E a \in db.tx.author :
          a.name = <<"name", 2>> /\ a.account_name = <<"account", 1>>

OneTagRowPerName(t) ==
    \A r1, r2 \in t.artwork_tag :
        (r1.artwork_id = r2.artwork_id /\ r1.name = r2.name) => r1 = r2

TagRowsUnique == OneTagRowPerName(db.tx) /\ OneTagRowPerName(db.committed)

\* a step changes the translated name of a Tag row only to a non-null
\* translation that the payload being recorded carries for that tag name
TranslationOnlyRefreshed ==
    \A old \in db.tx.artwork_tag, new \in db'.tx.artwork_tag :
        (db'.pc = "flush" /\ old.id = new.id
            /\ old.translated_name # new.translated_name) =>
            /\ new.translated_name # ""
            /\ \E k \in 1..Len(db.batch[db.idx].tags) :
                  /\ db.batch[db.idx].tags[k].name = new.name
                  /\ db.batch[db.idx].tags[k].translated_name = new.translated_name

\* C25: after any sequence of recordings the store holds at most one Tag
\* row per (item id, tag name), also when a payload repeats a tag name or
\* the item is recorded again, and the translated name of a Tag row is
\* overwritten only by a non-null translation.
C25_OneTagRowPerName ==
    /\ [] TagRowsUnique
    /\ [][TranslationOnlyRefreshed]_vars

C25_Witness ==
    /\ Recorded
    /\ db.batch[db.idx] = Payload(1, 2)
    /\ \E r \in db.pre.artwork_tag :
          r.artwork_id = 1 /\ r.name = "b" /\ r.translated_name = ""
    /\ \E r \in db.tx.artwork_tag :
          r.artwork_id = 1 /\ r.name = "a" /\ r.translated_name = "x"
    /\ \E r \in db.tx.artwork_tag :
          r.artwork_id = 1 /\ r.name = "b" /\ r.translated_name = "y"
    /\ Cardinality({r \in db.tx.artwork_tag : r.artwork_id = 1}) = 2

(***************************************************************************)
(* Properties of the fan-outs (checked under FanSpec).                     *)
(***************************************************************************)
FanLimit == IF fan.kind = "avatar" THEN 8 ELSE 4

\* a step that fetches a page of unit u is made inside the unit's call, and
\* the page is the one after the page fetched last
FetchesInOrder(u) ==
    fan'.log[u] # fan.log[u] =>
        /\ fan.st[u] = "running"
        /\ \E p \in 1..Len(fan.work[u]) : fan'.log[u] = Append(fan.log[u], p)
        /\ Len(fan'.log[u]) = 1 \/ fan'.log[u][Len(fan'.log[u])] =
                                      fan.log[u][Len(fan.log[u])] + 1

\* a unit is taken off the queue once, before any of its pages is fetched
TakenOnce(u) ==
    (fan'.st[u] = "running" /\ fan.st[u] # "running") =>
        fan.st[u] = "pending" /\ fan.log[u] = <<>>

\* C26: at any moment at most 4 download units of a job are being processed
\* (at most 8 avatar downloads in the avatar fan-out), a unit is taken by
\* a worker once, and its pages are fetched inside that one call, page
\* after page in increasing page index.
C26_BoundedFanOut ==
    /\ [](Cardinality(FanRunning) <= FanLimit)
    /\ [][fan.pc = "idle" \/
          \A u \in FanWork : FetchesInOrder(u) /\ TakenOnce(u)]_vars

\* the pool is full, work is waiting, and a two-page unit has been fetched
C26_Witness ==
    /\ fan.kind = "item"
    /\ Cardinality(FanRunning) = 4
    /\ \E u \in FanWork : fan.st[u] = "pending"
    /\ \E u \in FanRunning : fan.log[u] = <<1, 2>>

C26_AvatarWitness ==
    /\ fan.kind = "avatar"
    /\ Cardinality(FanRunning) = 8
    /\ \E u \in FanWork : fan.st[u] = "pending"

(***************************************************************************)
(* Properties of two concurrent units of one item (checked under DupSpec). *)
(***************************************************************************)
DupEnded == dup.pc = "run" /\ \A u \in Twins : dup.st[u] \in {"done", "skipped", "failed"}

AllPagesWhole == \A p \in 1..Len(dup.file) : dup.file[p] = "complete"

\* C27: when two download units of the same item run concurrently, in
\* every interleaving, also when one of the two fails part-way, the marker
\* is present only if every page file of the item is completely written.
C27_MarkerImpliesWholePages == dup.marker => AllPagesWhole

\* the race leaves its trace for good: both units have ended, the marker is
\* there, and a page file is not whole
C27_BrokenForGood == DupEnded /\ dup.marker /\ ~AllPagesWhole

(***************************************************************************)
(* Properties of the Symlink Projector (checked under SymSpec).            *)
(***************************************************************************)
SymCalled == sym.pc = "called"

\* C28: a do_symlinks call for an item whose canonical directory exists
\* leaves at <view>/<id> a link to the resolved canonical directory,
\* whatever was there before (nothing, a valid link, a dangling link or a
\* file), and changes nothing else; a call for an item whose canonical
\* directory does not exist changes nothing; in both cases a second call
\* would change nothing.
C28_SymlinkIdempotent ==
    SymCalled =>
        /\ ~sym.raised
        /\ sym.fs.raw = sym.pre.raw
        /\ \A j \in SymItems \ {sym.id} : sym.fs.view[j] = sym.pre.view[j]
        /\ sym.fs.view[sym.id] =
              IF sym.pre.raw[sym.id] THEN Link(<<"", "mirror", "raw", sym.id>>)
              ELSE sym.pre.view[sym.id]
        /\ do_symlinks(sym.fs, RAW_DIR, sym.id).fs = sym.fs

\* an earlier call for the item was a no-op, the canonical directory was
\* created since, and this call replaced a file by the link
C28_Witness ==
    /\ SymCalled
    /\ sym.id \in sym.skipped
    /\ sym.pre.raw[sym.id]
    /\ sym.pre.view[sym.id] = FileEntry
    /\ sym.fs.view[sym.id].kind = "link"

(***************************************************************************)
(* The view directories of the bookmark job (checked under PoolSpec).      *)
(***************************************************************************)
ListedIn(r) ==
    {user_bookmarks_illust(r)[k].id : k \in 1..Len(user_bookmarks_illust(r))}

\* C29: when the bookmark job has finished, every item of a collection
\* whose canonical mirror directory exists has a link in the collection's
\* view directory bookmarks/<restrict>.
C29_JobProjectsLinks ==
    jobpc = "finished" =>
        \A r \in {"private", "public"} :
            \A i \in ListedIn(r) : meta[i].exists => i \in views[r].links

(***************************************************************************)
(* Deletion in the gallery and later jobs (checked under FilterSpec).      *)
(***************************************************************************)
DeletedByGallery(id) ==
    \E k \in 1..Len(flt.rows) : flt.rows[k] = Row(0, id, "")

\* C30: after the gallery's deletion action has removed and blacklisted an
\* item, a later job that meets the item again does not ingest it: no
\* Item row, metadata snapshot or download unit is created for it.
C30_DeletedStaysDeleted ==
    (flt.pc = "done" /\ DeletedByGallery(flt.illust.id)) => ~ingested(flt.out)

\* with filtering on, the deleted item is rejected whatever the policy is
C30_RejectedWhenFiltering ==
    (flt.pc = "done" /\ DeletedByGallery(flt.illust.id) /\ flt.policy.should_filter)
        => ~ingested(flt.out)

(***************************************************************************)
(* Deletion between recording and download (checked under VanSpec).        *)
(***************************************************************************)
HasMirrorEntry(i) == i \in van.dir \/ van.files[i] # {} \/ i \in van.marker

\* C31: when the deletion action removes an item after it was recorded and
\* before its download unit runs, then when the job has ended there is
\* no mirror entry of the item (directory, page files or marker) without
\* its metadata snapshot and Item row.
C31_VanishedStaysAbsent ==
    (van.pc \in {"finished", "raised"}) =>
        \A i \in van.deleted : HasMirrorEntry(i) => (i \in van.meta /\ i \in van.row)

\* the job ended without error and left a marked entry of the deleted item
C31_OrphanEntry ==
    /\ van.pc = "finished"
    /\ \E i \in van.deleted :
          i \in van.marker /\ van.files[i] = {1, 2} /\ i \notin van.meta /\ i \notin van.row

\* a step that leaves the with block of DB.session
LeavesNormally == db.pc = "item" /\ db'.pc = "committed"
LeavesByError == db.pc \in {"item", "flush"} /\ db'.pc = "rolled_back"

\* C32: when the body of DB.session finishes normally its writes are
\* committed, in that one step; when the body raises, the error reaches the
\* caller and the committed tables are those from before the session; no
\* other step changes the committed tables.
C32_ScopedTransaction ==
    [][/\ LeavesNormally => db'.committed = db.tx
       /\ LeavesByError => (db'.committed = db.committed /\ db'.tx = db.committed)
       /\ db'.committed # db.committed => LeavesNormally]_vars

\* the body raised after it had flushed writes, in a second session
C32_Witness ==
    /\ db.pc = "rolled_back"
    /\ db.lost
    /\ db.sessions = 2
    /\ db.committed.artwork # {}

JobEffects(j) == <<j.meta, j.dirs, j.tx, j.to_dl, j.committed>>

\* C34: a step of process_and_save_illusts on a rejected item (here: an
\* item that is not visible) writes no snapshot, creates no directory, no
\* Item, Author or Tag row and no download unit, and the batch goes on with
\* the next item; an accepted item is recorded and queued wherever it
\* stands in the batch.
C34_RejectionHasNoEffect ==
    [][(job.pc = "batch" /\ job'.pc = "batch") =>
          LET illust == job.to_process[job.idx]
          IN  /\ job'.idx = job.idx + 1
              /\ ~illust.visible => JobEffects(job') = JobEffects(job)
              /\ illust.visible =>
                    /\ illust.id \in job'.meta /\ illust.id \in job'.tx.artwork
                    /\ job'.to_dl = Append(job.to_dl, make_downloadable(illust))]_vars

\* the batch began with a rejected item and went on to record the next one
C34_Witness ==
    /\ job.pc = "batch"
    /\ job.jobs = 1
    /\ job.idx = 3
    /\ ~job.to_process[1].visible
    /\ job.meta = {job.to_process[2].id}
    /\ job.dirs = job.meta
    /\ job.tx.artwork = job.meta
    /\ job.tx.author = {1}
    /\ Len(job.to_dl) = 1

\* C38: every Bookmark row of the store references an item that has an Item
\* row.
C38_BookmarksReferenceItems ==
    job.committed.bookmark \subseteq job.committed.artwork

\* C39: whenever a job has ended, normally or by a raised error in the
\* middle of a batch, every item with a meta.json snapshot has a committed
\* Item row, and so has every item whose download unit was dispatched.
C39_SnapshotsHaveRows ==
    (job.pc \in {"finished", "raised"}) =>
        /\ job.meta \subseteq job.committed.artwork
        /\ job.dispatched \subseteq job.committed.artwork

\* the part of C39 that the code keeps: no unit is dispatched without rows
C39_DispatchedHaveRows ==
    job.dispatched \subseteq job.committed.artwork

(***************************************************************************)
(* The limit of download_following (checked under FollowSpec).             *)
(***************************************************************************)
\* C35: download_following(max_items=M) hands at most M listed items to
\* filtering, recording and download, and hands no item over twice.
C35_AtMostLimit ==
    /\ Len(fol.handed) <= fol.max_items
    /\ \A k, l \in 1..Len(fol.handed) : fol.handed[k] = fol.handed[l] => k = l

\* what the loop does hand over: whole batches of FollowCap items, so up to
\* the limit rounded up to a multiple of FollowStep, each item once
C35_WholeBatches ==
    /\ \A k \in 1..Len(fol.handed) : fol.handed[k] = k
    /\ fol.pc \in {"finished", "returned"} =>
          \E b \in 1..(MaxLimit \div FollowStep + 1) :
              /\ FollowStep * (b - 1) < fol.max_items
              /\ fol.max_items <= FollowStep * b
              /\ Len(fol.handed) = Min(fol.feed, FollowStep * b)

\* a job with a limit of 31 that handed over 60 items
C35_Overshoot ==
    /\ fol.pc = "finished"
    /\ fol.max_items = 31
    /\ Len(fol.handed) = 60

(***************************************************************************)
(* The blacklist subcommand (checked under BlacklistSpec).                 *)
(***************************************************************************)
\* C36: when blacklist is called with none of user_id, artwork_id and tag,
\* it reports the error and adds no Blacklist row: the table is as it was
\* before the call.
C36_NoArgumentNoRow ==
    (blk.pc = "called" /\ blk.last = Row(0, 0, "")) =>
        /\ blk.error
        /\ blk.rows = blk.before

\* what the code does: the error is reported exactly when no argument was
\* given, and every call adds the row of its arguments
C36_RowAddedAnyway ==
    blk.pc = "called" =>
        /\ blk.error <=> blk.last = Row(0, 0, "")
        /\ blk.rows = Append(blk.before, blk.last)

\* an empty row added after a useful one
C36_EmptyRow ==
    /\ blk.pc = "called"
    /\ blk.error
    /\ blk.rows = <<Row(1, 0, ""), Row(0, 0, "")>>

(***************************************************************************)
(* The user rules of the offline filter tool (checked under OffSpec).      *)
(***************************************************************************)
Required == {off.require_user[k] : k \in 1..Len(off.require_user)}
Excluded == {off.exclude_user[k] : k \in 1..Len(off.exclude_user)}

\* C37: --require-user U keeps exactly the illustrations posted by U and
\* --exclude-user U exactly those not posted by U; an illustration is valid
\* iff every rule accepts it, and otherwise the message is that of the
\* first rule, in insertion order, that does not.
C37_UserRulesKeepWhatTheySay ==
    off.pc = "checked" =>
        LET posted == off.obb.user.id
            n == Len(off.filter_rules)
            keeps(k) == IF k <= Len(off.require_user)
                        THEN posted = off.filter_rules[k].user_id
                        ELSE posted # off.filter_rules[k].user_id
        IN  /\ off.valid <=> ((\A u \in Required : posted = u) /\ (\A u \in Excluded : posted # u))
            /\ ~off.valid =>
                  \E k \in 1..n :
                      /\ ~keeps(k)
                      /\ \A j \in 1..(k - 1) : keeps(j)
                      /\ off.msg = user_message(off.filter_rules[k], off.obb.user)

\* what the tool does: the two options are exchanged (a rule of
\* --require-user U keeps what U did not post, a rule of --exclude-user U
\* keeps what U posted); the conjunction and the first-failure message of
\* check_valid are as stated.
C37_UserRulesExchanged ==
    off.pc = "checked" =>
        LET posted == off.obb.user.id
            n == Len(off.filter_rules)
            keeps(k) == IF k <= Len(off.require_user)
                        THEN posted # off.filter_rules[k].user_id
                        ELSE posted = off.filter_rules[k].user_id
        IN  /\ off.valid <=> ((\A u \in Required : posted # u) /\ (\A u \in Excluded : posted = u))
            /\ off.valid => off.msg = NoReport
            /\ ~off.valid =>
                  \E k \in 1..n :
                      /\ ~keeps(k)
                      /\ \A j \in 1..(k - 1) : keeps(j)
                      /\ off.msg = user_message(off.filter_rules[k], off.obb.user)

\* --require-user 1 alone: the illustration of user 1 is dropped
C37_RequiredUserDropped ==
    /\ off.pc = "checked"
    /\ off.require_user = <<1>>
    /\ off.exclude_user = <<>>
    /\ off.obb.user.id = 1
    /\ ~off.valid
    /\ off.msg.kind = "Posted by"

====
